---- MODULE Spec2Model ----
(***************************************************************************)
(* The editing core of the Phichain chart editor: the line commands         *)
(* (phichain-editor/src/editing/command/line.rs) run against the entity     *)
(* world through the undo/redo history, and the save marker the status bar  *)
(* shows (phichain-editor/src/main.rs).                                     *)
(*                                                                         *)
(* The world is the sequence of all entities ever allocated: entity ids are *)
(* never handed out twice (a despawned id is never equal to a later one),   *)
(* so the id of an entity is its index and a spawn appends.  The notes and  *)
(* events of a line, which are child entities of the line, are kept as the  *)
(* value lists of the line record; the child lines of a line are the        *)
(* entities whose parent is the line.                                       *)
(***************************************************************************)
EXTENDS Integers, Sequences, FiniteSets, TLC

VARIABLES
    world,        \* Seq of entity records: world[id] is entity id
    done,         \* the commands applied and not undone, oldest first
    redo,         \* the commands undone, next to redo first
    saved,        \* the save marker: a height of done, or NoMarker
    selectedLine, \* the SelectedLine resource (None until a line is selected)
    panicked,     \* the process has panicked (a World access to a missing entity)
    lastOp,       \* the last operation: what was submitted and the world before it
    run,          \* "dos", "undos" or "other": the shape of the run on an empty chart
    phase,        \* progress through do; mark_saved; undo; redo or do (0 = not in it)
    ran,          \* the children the last operation ran, in the order it ran them
    selected,     \* the entities that carry the Selected tag
    clipboard,    \* the EditorClipboard resource
    lastClip,     \* the last clipboard hotkey handled, with what it read
    disk,         \* chart.json and meta.json of the project directory
    toast,        \* the notification the last save raised ("" for none)
    registry,     \* the ActionRegistry: id -> RegisteredAction
    hotkeys,      \* the hotkey table: id -> chord
    keyboard,     \* the keys held at the end of the last tick
    dispatched,   \* the actions the hotkey dispatcher ran in the last tick, in order
    running,      \* the app is built and the loop is ticking
    registered,   \* the calls of register_action so far, in the order made
    holdDrag,     \* the ui's temporary data "hold-drag": <<>> or <<the note>>
    dragging,     \* the drag zone whose drag is under way: entity and zone
    project,      \* the Project resource: <<>> until a project is loaded
    resources,    \* the chart resources inserted: "offset", "bpm_list"
    loadEvents    \* the LoadProjectEvents sent and not yet read, oldest first

historyVars ==
    <<world, done, redo, saved, selectedLine, panicked, lastOp, run, phase,
      ran, selected>>
clipVars == <<clipboard, lastClip>>
projectVars == <<disk, toast>>
hotkeyVars == <<registry, hotkeys, keyboard, dispatched, running, registered>>

timelineVars == <<holdDrag, dragging>>
loadVars == <<project, resources, loadEvents>>

vars ==
    <<historyVars, clipVars, projectVars, hotkeyVars, timelineVars, loadVars>>

(* ------------------------------ bounds --------------------------------- *)

\* Entity ids that can be allocated in one run.
MaxEnt == 2
\* Height of the done stack up to which do() is taken, commands alone.
MaxDone == 4
\* The same for a session that also saves and selects lines.
MaxSessionDone == 2
\* The same for a session that saves the project.
MaxProjectDone == 2
\* The same for a run of copies and cuts.
MaxClipDone == 2
\* The same for a run of pastes.
MaxPasteDone == 1
\* Entity ids that can be allocated in a run of pastes.
MaxClipEnt == 8
\* The largest quantized beat a paste cursor maps to.
MaxBeat == 2
\* Calls of register_action in one build of the app.
MaxRegistered == 3
\* Commands on the done and redo stacks up to which a hold-resize gesture is
\* started.
MaxHoldDone == 1
\* The largest beat, in units, an end of a hold is dragged to.
MaxUnit == 9

\* The LoadProjectEvents that can be pending at once.
MaxPending == 3

(* ------------------------------ values --------------------------------- *)

\* Option::None of an Option<Entity>; entity ids start at 1.
None == 0
\* The marker of a history whose saved state was cut off by a do().
NoMarker == -1

\* LineWrapper: the serialized form of one line.  Its fields are the ones the
\* loader destructures: line, notes, events.
LineWrapper(line, notes, events) ==
    [line |-> line, notes |-> notes, events |-> events]

\* LineWrapper::default(): the default line, no notes, no events.
LineWrapperDefault == LineWrapper(0, <<>>, <<>>)

\* A live line entity made from a LineWrapper, with its Parent (or None).
LineEntity(lw, parent) ==
    [status |-> "line", line |-> lw.line, parent |-> parent,
     notes |-> lw.notes, events |-> lw.events]

\* An entity that is alive and holds no component at all.
EmptyEntity ==
    [status |-> "empty", line |-> 0, parent |-> None,
     notes |-> <<>>, events |-> <<>>]

\* A despawned entity.
GoneEntity ==
    [status |-> "gone", line |-> 0, parent |-> None,
     notes |-> <<>>, events |-> <<>>]

Ids(w) == DOMAIN w
Alive(w, e) == e \in Ids(w) /\ w[e].status # "gone"
IsLine(w, e) == e \in Ids(w) /\ w[e].status = "line"
Lines(w) == {e \in Ids(w) : w[e].status = "line"}

\* The Parent component of an alive entity, as an Option<Entity>.
ParentOf(w, e) == w[e].parent

\* The Children component: the alive entities whose Parent is p.
Children(w, p) == {e \in Ids(w) : w[e].status # "gone" /\ w[e].parent = p}

RECURSIVE Reach(_, _, _)
Reach(w, frontier, seen) ==
    IF frontier = {} THEN seen
    ELSE LET next == UNION {Children(w, p) : p \in frontier} \ seen
         IN Reach(w, next, seen \cup next)

\* Every entity below e in the hierarchy (e itself when it lies on a cycle).
Descendants(w, e) == Reach(w, {e}, {})

\* The parent relation has a cycle: some alive entity is its own ancestor.
HasCycle(w) == \E e \in Ids(w) : Alive(w, e) /\ e \in Descendants(w, e)

(* --------------------------- the chart loader -------------------------- *)

\* load: one line entity per LineWrapper of the file, top level, in order.
RECURSIVE LoadLines(_)
LoadLines(lines) ==
    IF lines = <<>> THEN <<>>
    ELSE <<LineEntity(Head(lines), None)>> \o LoadLines(Tail(lines))

\* The charts a run starts from.
InitCharts ==
    { <<>>,
      <<LineWrapper(1, <<1>>, <<1>>)>>,
      <<LineWrapper(1, <<1>>, <<1>>), LineWrapper(2, <<>>, <<2>>)>> }

(* ------------------- events and helpers of the editor ------------------ *)

\* The outcome of running a command half (edit or undo) on a world: the world
\* and the command afterwards, or a panic (world and command as they were);
\* for a CommandSequence, log is the indices of the children in the order run.
Ran(w, c) == [w |-> w, c |-> c, panic |-> FALSE, log |-> <<>>]
Panic(w, c) == [w |-> w, c |-> c, panic |-> TRUE, log |-> <<>>]

\* SpawnLineEvent { line, parent, target }.run(world): the line is put into the
\* entity `target` when one is given and into a new entity otherwise, then
\* parented.  Gives the world and the line's entity id; World::entity_mut
\* panics on a despawned target or parent.
SpawnLineEvent(w, lw, parent, target) ==
    IF \/ (target # None /\ ~Alive(w, target))
       \/ (parent # None /\ ~Alive(w, parent))
    THEN [w |-> w, id |-> None, panic |-> TRUE]
    ELSE IF target = None
         THEN [w |-> Append(w, LineEntity(lw, parent)),
               id |-> Len(w) + 1, panic |-> FALSE]
         ELSE [w |-> [w EXCEPT ![target] = LineEntity(lw, parent)],
               id |-> target, panic |-> FALSE]

\* DespawnLineEvent(entity): the line and everything below it is despawned.
\* Despawning an entity that is already gone is not an error.
DespawnLineEvent(w, entity) ==
    IF ~Alive(w, entity) THEN w
    ELSE LET gone == {entity} \cup Descendants(w, entity)
         IN [e \in Ids(w) |-> IF e \in gone THEN GoneEntity ELSE w[e]]

\* replace_with_empty(world, entity): "we retain the entity, despawn all its
\* children and remove all components".
replace_with_empty(w, entity) ==
    LET gone == Descendants(w, entity) \ {entity}
    IN [e \in Ids(w) |-> IF e = entity THEN EmptyEntity
                          ELSE IF e \in gone THEN GoneEntity ELSE w[e]]

\* LineWrapper::serialize_line(world, entity): the line with its notes and
\* events, by value.
serialize_line(w, entity) ==
    LineWrapper(w[entity].line, w[entity].notes, w[entity].events)

(* ----------------------------- the commands ---------------------------- *)

\* One record shape for the three commands; a command uses its own fields:
\*   CreateLine(created)              created: Option<Entity>
\*   RemoveLine{entity, line}         line: <<>> or <<[lw, parent]>>
\*   MoveLineAsChild{entity, prev_parent, target}
Command(kind, entity, target) ==
    [kind |-> kind, entity |-> entity, target |-> target,
     prev_parent |-> None, created |-> None, line |-> <<>>]

\* CreateLine::new()
CreateLineNew == Command("CreateLine", None, None)
\* RemoveLine::new(entity)
RemoveLineNew(entity) == Command("RemoveLine", entity, None)
\* MoveLineAsChild::new(entity, target)
MoveLineAsChildNew(entity, target) == Command("MoveLineAsChild", entity, target)

\* CreateLine::edit that forgets to keep the spawned entity (self.0 stays None).
CreateLineEdit_NoCapture(self, w) ==
    LET r == SpawnLineEvent(w, LineWrapperDefault, None, None)
    IN Ran(r.w, self)

\* CreateLine::edit: spawn a default root line and keep its entity.
CreateLineEdit(self, w) ==
    LET r == SpawnLineEvent(w, LineWrapperDefault, None, None)
    IN Ran(r.w, [self EXCEPT !.created = r.id])

\* CreateLine::undo that sends no DespawnLineEvent.
CreateLineUndo_Noop(self, w) == Ran(w, self)

\* CreateLine::undo: despawn the kept entity, if any.
CreateLineUndo(self, w) ==
    IF self.created # None
    THEN Ran(DespawnLineEvent(w, self.created), self)
    ELSE Ran(w, self)

\* RemoveLine::edit that despawns the line entity instead of emptying it.
RemoveLineEdit_Despawn(self, w) ==
    IF ~IsLine(w, self.entity) THEN Panic(w, self)
    ELSE LET parent == ParentOf(w, self.entity)
             kept == [lw |-> serialize_line(w, self.entity), parent |-> parent]
         IN Ran(DespawnLineEvent(w, self.entity),
                [self EXCEPT !.line = <<kept>>])

\* RemoveLine::edit: keep (serialized line, parent), then empty the entity.
\* World::entity panics on a despawned entity; serializing an entity that is
\* not a line finds no Line component.
RemoveLineEdit(self, w) ==
    IF ~IsLine(w, self.entity) THEN Panic(w, self)
    ELSE LET parent == ParentOf(w, self.entity)
             kept == [lw |-> serialize_line(w, self.entity), parent |-> parent]
         IN Ran(replace_with_empty(w, self.entity),
                [self EXCEPT !.line = <<kept>>])

\* RemoveLine::undo: respawn the kept line into the same entity.
RemoveLineUndo(self, w) ==
    IF self.line # <<>>
    THEN LET r == SpawnLineEvent(w, self.line[1].lw, self.line[1].parent,
                                 self.entity)
         IN IF r.panic THEN Panic(w, self) ELSE Ran(r.w, self)
    ELSE Ran(w, self)

\* entity_mut(child).set_parent(parent): panics on a despawned parent and on
\* an entity made a child of itself.
SetParent(w, child, parent) ==
    IF ~Alive(w, parent) \/ parent = child
    THEN [w |-> w, panic |-> TRUE]
    ELSE [w |-> [w EXCEPT ![child].parent = parent], panic |-> FALSE]

\* entity_mut(child).remove_parent()
RemoveParent(w, child) == [w EXCEPT ![child].parent = None]

\* MoveLineAsChild::edit: keep the current parent, then set the parent to the
\* target, or detach when the target is None.
MoveLineAsChildEdit(self, w) ==
    IF ~Alive(w, self.entity) THEN Panic(w, self)
    ELSE LET c == [self EXCEPT !.prev_parent = ParentOf(w, self.entity)]
         IN IF self.target = None
            THEN Ran(RemoveParent(w, self.entity), c)
            ELSE LET r == SetParent(w, self.entity, self.target)
                 IN IF r.panic THEN Panic(w, self) ELSE Ran(r.w, c)

\* MoveLineAsChild::undo that detaches and never sets the kept parent.
MoveLineAsChildUndo_NoRestore(self, w) ==
    IF ~Alive(w, self.entity) THEN Panic(w, self)
    ELSE Ran(RemoveParent(w, self.entity), self)

\* MoveLineAsChild::undo: detach, then set the kept parent if there was one.
MoveLineAsChildUndo(self, w) ==
    IF ~Alive(w, self.entity) THEN Panic(w, self)
    ELSE LET detached == RemoveParent(w, self.entity)
         IN IF self.prev_parent = None
            THEN Ran(detached, self)
            ELSE LET r == SetParent(detached, self.entity, self.prev_parent)
                 IN IF r.panic THEN Panic(w, self) ELSE Ran(r.w, self)

(* ------------------ notes, events and their commands ------------------- *)

\* A Note and a LineEvent, by the fields the clipboard reads and writes.
Note(beat) == [beat |-> beat]
LineEvent(start_beat, end_beat) ==
    [start_beat |-> start_beat, end_beat |-> end_beat]

\* The entity of a note and of an event: a child of its line.
NoteEntity(note, parent) ==
    [status |-> "note", note |-> note, parent |-> parent]
LineEventEntity(event, parent) ==
    [status |-> "event", event |-> event, parent |-> parent]

\* Query<&Note>::get(entity) and Query<&LineEvent>::get(entity) are Ok.
IsNote(w, e) == e \in Ids(w) /\ w[e].status = "note"
IsEvent(w, e) == e \in Ids(w) /\ w[e].status = "event"

\* The notes and the events of a line, as entity ids.
NotesOf(w, l) == {e \in Ids(w) : w[e].status = "note" /\ w[e].parent = l}
EventsOf(w, l) == {e \in Ids(w) : w[e].status = "event" /\ w[e].parent = l}

\* A note or event entity is spawned under its line: into a new entity the
\* first time, into the entity it had (target) when it is brought back.
SpawnChild(w, ent, target) ==
    IF ~Alive(w, ent.parent) \/ (target # None /\ target \notin Ids(w))
    THEN [w |-> w, id |-> None, panic |-> TRUE]
    ELSE IF target = None
         THEN [w |-> Append(w, ent), id |-> Len(w) + 1, panic |-> FALSE]
         ELSE [w |-> [w EXCEPT ![target] = ent], id |-> target, panic |-> FALSE]

\* CreateNote::new(line_entity, note), RemoveNote::new(entity) and the same for
\* events.  created is the entity made by the first apply; kept is <<>> or the
\* captured <<[value, parent]>>.
CreateNoteNew(line_entity, note) ==
    [kind |-> "CreateNote", line_entity |-> line_entity, value |-> note,
     created |-> None]
RemoveNoteNew(entity) ==
    [kind |-> "RemoveNote", entity |-> entity, kept |-> <<>>]
CreateEventNew(line_entity, event) ==
    [kind |-> "CreateEvent", line_entity |-> line_entity, value |-> event,
     created |-> None]
RemoveEventNew(entity) ==
    [kind |-> "RemoveEvent", entity |-> entity, kept |-> <<>>]

\* CreateNote / CreateEvent, apply: the value becomes an entity under the line.
CreateChildEdit(self, w, ent) ==
    LET r == SpawnChild(w, ent, self.created)
    IN IF r.panic THEN Panic(w, self)
       ELSE Ran(r.w, [self EXCEPT !.created = r.id])

CreateNoteEdit(self, w) ==
    CreateChildEdit(self, w, NoteEntity(self.value, self.line_entity))
CreateEventEdit(self, w) ==
    CreateChildEdit(self, w, LineEventEntity(self.value, self.line_entity))

\* CreateNote / CreateEvent, undo: the created entity is despawned.
CreateNoteUndo(self, w) ==
    IF self.created \in Ids(w)
    THEN Ran([w EXCEPT ![self.created] = GoneEntity], self)
    ELSE Ran(w, self)
CreateEventUndo(self, w) == CreateNoteUndo(self, w)

\* RemoveNote / RemoveEvent, apply: capture the value and the line, despawn.
RemoveNoteEdit(self, w) ==
    IF ~IsNote(w, self.entity) THEN Panic(w, self)
    ELSE Ran([w EXCEPT ![self.entity] = GoneEntity],
             [self EXCEPT !.kept = <<[value |-> w[self.entity].note,
                                      parent |-> w[self.entity].parent]>>])
RemoveEventEdit(self, w) ==
    IF ~IsEvent(w, self.entity) THEN Panic(w, self)
    ELSE Ran([w EXCEPT ![self.entity] = GoneEntity],
             [self EXCEPT !.kept = <<[value |-> w[self.entity].event,
                                      parent |-> w[self.entity].parent]>>])

\* RemoveNote / RemoveEvent, undo: the captured value is brought back under
\* its line, into the same entity.
RemoveChildUndo(self, w, ent) ==
    LET r == SpawnChild(w, ent, self.entity)
    IN IF r.panic THEN Panic(w, self) ELSE Ran(r.w, self)

RemoveNoteUndo(self, w) ==
    IF self.kept = <<>> THEN Ran(w, self)
    ELSE RemoveChildUndo(self, w,
                         NoteEntity(self.kept[1].value, self.kept[1].parent))
RemoveEventUndo(self, w) ==
    IF self.kept = <<>> THEN Ran(w, self)
    ELSE RemoveChildUndo(self, w,
                         LineEventEntity(self.kept[1].value, self.kept[1].parent))

\* EditNote::new(entity, from, to): apply sets the note to `to`, undo sets it
\* to `from`.
EditNoteNew(entity, from, to) ==
    [kind |-> "EditNote", entity |-> entity, from |-> from, to |-> to]

EditNoteEdit(self, w) ==
    IF ~IsNote(w, self.entity) THEN Panic(w, self)
    ELSE Ran([w EXCEPT ![self.entity].note = self.to], self)

EditNoteUndo(self, w) ==
    IF ~IsNote(w, self.entity) THEN Panic(w, self)
    ELSE Ran([w EXCEPT ![self.entity].note = self.from], self)

(* --------------------------- CommandSequence --------------------------- *)

\* CommandSequence(commands): a command that owns a vector of children.
CommandSequenceNew(commands) ==
    [kind |-> "CommandSequence", commands |-> commands]

RECURSIVE Edit(_, _)
RECURSIVE UndoEdit(_, _)

\* The children from index i upwards are applied, one after the other.
RECURSIVE EditUpFrom(_, _, _)
EditUpFrom(self, w, i) ==
    IF i > Len(self.commands) THEN Ran(w, self)
    ELSE LET r == Edit(self.commands[i], w)
         IN IF r.panic THEN Panic(r.w, self)
            ELSE LET rest ==
                       EditUpFrom([self EXCEPT !.commands[i] = r.c], r.w, i + 1)
                 IN [rest EXCEPT !.log = <<i>> \o rest.log]

\* The children from index i downwards are undone, one after the other.
RECURSIVE UndoDownFrom(_, _, _)
UndoDownFrom(self, w, i) ==
    IF i < 1 THEN Ran(w, self)
    ELSE LET r == UndoEdit(self.commands[i], w)
         IN IF r.panic THEN Panic(r.w, self)
            ELSE LET rest ==
                       UndoDownFrom([self EXCEPT !.commands[i] = r.c], r.w, i - 1)
                 IN [rest EXCEPT !.log = <<i>> \o rest.log]

\* The children from index i upwards are undone, one after the other.
RECURSIVE UndoUpFrom(_, _, _)
UndoUpFrom(self, w, i) ==
    IF i > Len(self.commands) THEN Ran(w, self)
    ELSE LET r == UndoEdit(self.commands[i], w)
         IN IF r.panic THEN Panic(r.w, self)
            ELSE LET rest ==
                       UndoUpFrom([self EXCEPT !.commands[i] = r.c], r.w, i + 1)
                 IN [rest EXCEPT !.log = <<i>> \o rest.log]

\* CommandSequence, apply: the children in index order.
CommandSequenceEdit(self, w) == EditUpFrom(self, w, 1)

\* A CommandSequence undo that takes the children in index order.
CommandSequenceUndo_IndexOrder(self, w) == UndoUpFrom(self, w, 1)

\* CommandSequence, undo: the children in reverse index order.
CommandSequenceUndo(self, w) == UndoDownFrom(self, w, Len(self.commands))

\* EditorCommand::edit / EditorCommand::undo: dispatch on the variant.
Edit(c, w) ==
    CASE c.kind = "CreateLine" -> CreateLineEdit(c, w)
      [] c.kind = "RemoveLine" -> RemoveLineEdit(c, w)
      [] c.kind = "MoveLineAsChild" -> MoveLineAsChildEdit(c, w)
      [] c.kind = "CreateNote" -> CreateNoteEdit(c, w)
      [] c.kind = "RemoveNote" -> RemoveNoteEdit(c, w)
      [] c.kind = "CreateEvent" -> CreateEventEdit(c, w)
      [] c.kind = "RemoveEvent" -> RemoveEventEdit(c, w)
      [] c.kind = "CommandSequence" -> CommandSequenceEdit(c, w)
      [] c.kind = "EditNote" -> EditNoteEdit(c, w)

UndoEdit(c, w) ==
    CASE c.kind = "CreateLine" -> CreateLineUndo(c, w)
      [] c.kind = "RemoveLine" -> RemoveLineUndo(c, w)
      [] c.kind = "MoveLineAsChild" -> MoveLineAsChildUndo(c, w)
      [] c.kind = "CreateNote" -> CreateNoteUndo(c, w)
      [] c.kind = "RemoveNote" -> RemoveNoteUndo(c, w)
      [] c.kind = "CreateEvent" -> CreateEventUndo(c, w)
      [] c.kind = "RemoveEvent" -> RemoveEventUndo(c, w)
      [] c.kind = "CommandSequence" -> CommandSequenceUndo(c, w)
      [] c.kind = "EditNote" -> EditNoteUndo(c, w)

(* ----------------------- the history (undo stack) ---------------------- *)

\* No command: the lastOp of an operation that ran none.
NoCommand == Command("none", None, None)

Op(op, cmd, before) == [op |-> op, cmd |-> cmd, before |-> before]

Top(stack) == stack[Len(stack)]
Pop(stack) == SubSeq(stack, 1, Len(stack) - 1)

\* History::is_saved(): the marker is the current height of done.
IsSaved == saved = Len(done)

\* is_dirty(): the top of done differs from the marker.
IsDirty == saved # Len(done)

\* A status bar that shows "*" when the history is saved.
StatusBarMarker_Saved == IsSaved

\* ui_system, status bar: the label "*" is added iff the history is not saved.
StatusBarMarker == ~IsSaved

\* The commands the editor can submit in the current world: on lines that
\* exist, with any existing line (the line itself included) or None as target.
Inputs ==
    {CreateLineNew}
    \cup {RemoveLineNew(e) : e \in Lines(world)}
    \cup {MoveLineAsChildNew(e, t) : e \in Lines(world),
                                     t \in Lines(world) \cup {None}}

\* A command whose edit spawns needs a free entity id.
Spawns(c) == c.kind = "CreateLine"

\* The Selected tags left once the world is w2: a despawned or emptied entity
\* has lost its components, the tag with them.
SelectedAfter(w2) ==
    {e \in selected : Alive(w2, e) /\ w2[e].status # "empty"}

\* A history that keeps its marker when the saved state is cut off.
MarkerAfterEdit_Keep(marker, height) == marker

\* History::edit, the save marker: a marker above the height the new entry is
\* pushed at names a state that can no longer be reached, and is lost.
MarkerAfterEdit(marker, height) ==
    IF marker > height THEN NoMarker ELSE marker

\* do(C), the DoCommandEvent handler: History::edit applies C, pushes it on
\* done and drops what could be redone; a marker above the new entry is lost.
\* phase 5: do(C); mark_saved(); undo(); do(D) with D of another kind than C.
Do(c) ==
    /\ ~panicked
    /\ Spawns(c) => Len(world) < MaxEnt
    /\ LET r == Edit(c, world)
       IN /\ panicked' = r.panic
          /\ world' = r.w
          /\ done' = IF r.panic THEN done ELSE Append(done, r.c)
          /\ redo' = IF r.panic THEN redo ELSE <<>>
          /\ saved' = IF r.panic THEN saved
                      ELSE MarkerAfterEdit(saved, Len(done))
          /\ phase' = IF r.panic THEN 0
                      ELSE IF phase = 3 /\ c.kind # Head(redo).kind THEN 5
                      ELSE 1
          /\ ran' = r.log
          /\ selected' = SelectedAfter(r.w)
    /\ lastOp' = Op("do", c, world)
    /\ run' = IF run = "dos" THEN "dos" ELSE "other"
    /\ UNCHANGED selectedLine

DoCommand ==
    /\ \E c \in Inputs : Len(done) < MaxDone /\ Do(c)
    /\ UNCHANGED <<clipVars, projectVars, hotkeyVars, timelineVars, loadVars>>

DoCommandSession ==
    /\ \E c \in Inputs : Len(done) < MaxSessionDone /\ Do(c)
    /\ UNCHANGED <<clipVars, projectVars, hotkeyVars, timelineVars, loadVars>>

\* undo(): History::undo undoes the top of done and moves it to redo; nothing
\* happens on an empty done.
Undo ==
    /\ ~panicked
    /\ IF done = <<>>
       THEN /\ UNCHANGED <<world, done, redo, panicked, selected>>
            /\ lastOp' = Op("undo", NoCommand, <<>>)
            /\ phase' = 0
            /\ ran' = <<>>
       ELSE LET r == UndoEdit(Top(done), world)
            IN /\ panicked' = r.panic
               /\ world' = r.w
               /\ done' = IF r.panic THEN done ELSE Pop(done)
               /\ redo' = IF r.panic THEN redo ELSE <<r.c>> \o redo
               /\ lastOp' = Op("undo", Top(done), <<>>)
               /\ phase' = IF ~r.panic /\ phase = 2 THEN 3 ELSE 0
               /\ ran' = r.log
               /\ selected' = SelectedAfter(r.w)
    /\ run' = IF run \in {"dos", "undos"} THEN "undos" ELSE "other"
    /\ UNCHANGED <<saved, selectedLine>>
    /\ UNCHANGED <<clipVars, projectVars, hotkeyVars, timelineVars, loadVars>>

\* redo(): History::redo applies the first of redo again (Edit::redo is edit)
\* and moves it back to done; nothing happens on an empty redo.
Redo ==
    /\ ~panicked
    /\ IF redo = <<>>
       THEN /\ UNCHANGED <<world, done, redo, panicked, selected>>
            /\ lastOp' = Op("redo", NoCommand, <<>>)
            /\ phase' = 0
            /\ ran' = <<>>
       ELSE /\ Spawns(Head(redo)) => Len(world) < MaxEnt
            /\ LET r == Edit(Head(redo), world)
               IN /\ panicked' = r.panic
                  /\ world' = r.w
                  /\ done' = IF r.panic THEN done ELSE Append(done, r.c)
                  /\ redo' = IF r.panic THEN redo ELSE Tail(redo)
                  /\ phase' = IF ~r.panic /\ phase = 3 THEN 4 ELSE 0
                  /\ ran' = r.log
                  /\ selected' = SelectedAfter(r.w)
            /\ lastOp' = Op("redo", Head(redo), world)
    /\ run' = "other"
    /\ UNCHANGED <<saved, selectedLine>>
    /\ UNCHANGED <<clipVars, projectVars, hotkeyVars, timelineVars, loadVars>>

\* mark_saved(): History::set_saved(true) puts the marker at the top of done.
MarkSaved ==
    /\ ~panicked
    /\ saved' = Len(done)
    /\ lastOp' = Op("mark_saved", NoCommand, <<>>)
    /\ phase' = IF phase = 1 THEN 2 ELSE 0
    /\ ran' = <<>>
    /\ UNCHANGED <<world, done, redo, selectedLine, panicked, run, selected>>
    /\ UNCHANGED <<clipVars, projectVars, hotkeyVars, timelineVars, loadVars>>

\* The user selects a line in the line list: SelectedLine is set to it.
SelectLine ==
    /\ ~panicked
    /\ \E l \in Lines(world) :
          /\ l # selectedLine
          /\ selectedLine' = l
    /\ lastOp' = Op("select", NoCommand, <<>>)
    /\ ran' = <<>>
    /\ UNCHANGED <<world, done, redo, saved, panicked, run, phase, selected>>
    /\ UNCHANGED <<clipVars, projectVars, hotkeyVars, timelineVars, loadVars>>

(* ------------------------------ clipboard ------------------------------ *)

\* EditorClipboard::default(): no notes, no events.
EditorClipboardDefault == [notes |-> <<>>, events |-> <<>>]

\* lastClip before any clipboard hotkey was handled.
NoClip == [op |-> "none"]

\* Query<Entity, With<Selected>>: the alive entities that carry the tag.
SelectedQuery(w, sel) == {e \in sel : Alive(w, e)}

\* The orders in which a query can yield the entities of S.
Orders(S) ==
    {o \in [1..Cardinality(S) -> S] :
        \A i, j \in 1..Cardinality(S) : o[i] = o[j] => i = j}

\* A loop that collects no command for a selected event.
RECURSIVE CollectSelected_NoRemoveEvent(_, _)
CollectSelected_NoRemoveEvent(w, order) ==
    IF order = <<>>
    THEN [notes |-> <<>>, events |-> <<>>, commands |-> <<>>]
    ELSE LET entity == Head(order)
             rest == CollectSelected_NoRemoveEvent(w, Tail(order))
         IN IF IsNote(w, entity)
            THEN [notes |-> <<w[entity].note>> \o rest.notes,
                  events |-> rest.events,
                  commands |-> <<RemoveNoteNew(entity)>> \o rest.commands]
            ELSE IF IsEvent(w, entity)
            THEN [notes |-> rest.notes,
                  events |-> <<w[entity].event>> \o rest.events,
                  commands |-> rest.commands]
            ELSE rest

\* The loop of handle_copy_system and handle_cut_system over the selected
\* entities in the order the query yields them: a note is pushed to notes, an
\* event to events, anything else is skipped; commands is what the cut collects.
RECURSIVE CollectSelected(_, _)
CollectSelected(w, order) ==
    IF order = <<>>
    THEN [notes |-> <<>>, events |-> <<>>, commands |-> <<>>]
    ELSE LET entity == Head(order)
             rest == CollectSelected(w, Tail(order))
         IN IF IsNote(w, entity)
            THEN [notes |-> <<w[entity].note>> \o rest.notes,
                  events |-> rest.events,
                  commands |-> <<RemoveNoteNew(entity)>> \o rest.commands]
            ELSE IF IsEvent(w, entity)
            THEN [notes |-> rest.notes,
                  events |-> <<w[entity].event>> \o rest.events,
                  commands |-> <<RemoveEventNew(entity)>> \o rest.commands]
            ELSE rest

\* A copy that does not clear the clipboard first.
CopiedClipboard_NoClear(cb, w, order) ==
    LET c == CollectSelected(w, order)
    IN [notes |-> cb.notes \o c.notes, events |-> cb.events \o c.events]

\* The clipboard after handle_copy_system or handle_cut_system: cleared, then
\* filled by the loop.
CopiedClipboard(cb, w, order) ==
    LET c == CollectSelected(w, order)
    IN [notes |-> c.notes, events |-> c.events]

\* window.cursor_position(): <<>> (None) or <<[x, y]>>, in cells.
CursorPositions ==
    {<<>>, <<[x |-> 0, y |-> 1]>>, <<[x |-> 1, y |-> 0]>>}
    \cup {<<[x |-> x, y |-> 1]>> : x \in 1..3}

\* ctx.viewport: the rectangle of the timeline tab.
TimelineViewport == [x_min |-> 1, x_max |-> 3, y_min |-> 1, y_max |-> 1]

\* Rect::contains
Contains(rect, pos) ==
    /\ rect.x_min <= pos.x /\ pos.x <= rect.x_max
    /\ rect.y_min <= pos.y /\ pos.y <= rect.y_max

\* NoteTimeline(Option<Entity>): a timeline bound to a line, or to none.
NoteTimeline(line) == [line |-> line]

\* ctx.settings.container.allocate(viewport): the columns of the timeline tab,
\* each with its x range and its timeline; here one column that follows the
\* selected line and one bound to the line `bound`, and room left over.
Allocate(bound) ==
    << [x_min |-> 1, x_max |-> 1, timeline |-> NoteTimeline(None)],
       [x_min |-> 2, x_max |-> 2, timeline |-> NoteTimeline(bound)] >>

\* .iter().find(|x| x.viewport.x_range().contains(cursor_position.x))
\*        .map(|x| x.timeline): <<>> or <<timeline>> of the first such column.
FindTimeline(columns, x) ==
    LET hits == {i \in DOMAIN columns :
                    columns[i].x_min <= x /\ x <= columns[i].x_max}
    IN IF hits = {} THEN <<>>
       ELSE <<columns[CHOOSE i \in hits : \A j \in hits : i <= j].timeline>>

\* A line_entity_from_fallback that always takes the fallback.
line_entity_from_fallback_Always(self, fallback) == fallback

\* NoteTimeline::line_entity_from_fallback: self.0.unwrap_or(fallback)
line_entity_from_fallback(self, fallback) ==
    IF self.line # None THEN self.line ELSE fallback

\* The minimum of a non-empty set of beats.
MinBeat(beats) == CHOOSE b \in beats : \A c \in beats : b <= c

\* A pasted event whose end is not shifted.
ShiftEvent_StartOnly(event, delta) ==
    LineEvent(event.start_beat + delta, event.end_beat)

\* new_note.beat = note.beat + delta
ShiftNote(note, delta) == Note(note.beat + delta)

\* new_event.start_beat = event.start_beat + delta; the same for end_beat.
ShiftEvent(event, delta) ==
    LineEvent(event.start_beat + delta, event.end_beat + delta)

\* A paste that goes on without looking at the viewport.
PasteReaches_NoViewportCheck(cursor_position) == cursor_position # <<>>

\* handle_paste_system, the two early returns on the cursor: a position is
\* there and the viewport contains it.
PasteReaches(cursor_position) ==
    /\ cursor_position # <<>>
    /\ Contains(TimelineViewport, cursor_position[1])

\* A paste sequence that leaves the events out.
PasteSequence_NotesOnly(cb, target_line, beat) ==
    LET beats == {cb.notes[i].beat : i \in DOMAIN cb.notes}
    IN IF beats = {} THEN <<>>
       ELSE [i \in DOMAIN cb.notes |->
                CreateNoteNew(target_line,
                              ShiftNote(cb.notes[i], beat - MinBeat(beats)))]

\* handle_paste_system, from min_beat on: the CreateNote and CreateEvent of the
\* buffered notes and events, shifted by beat - min_beat; <<>> when the
\* clipboard is empty (min() is None).
PasteSequence(cb, target_line, beat) ==
    LET beats == {cb.notes[i].beat : i \in DOMAIN cb.notes}
                 \cup {cb.events[i].start_beat : i \in DOMAIN cb.events}
    IN IF beats = {} THEN <<>>
       ELSE LET delta == beat - MinBeat(beats)
            IN [i \in DOMAIN cb.notes |->
                   CreateNoteNew(target_line, ShiftNote(cb.notes[i], delta))]
               \o
               [i \in DOMAIN cb.events |->
                   CreateEventNew(target_line, ShiftEvent(cb.events[i], delta))]

\* handle_paste_system as a whole: the commands sent, <<>> or one
\* CommandSequence, for the cursor, the column layout, the quantized beat under
\* the cursor and the SelectedLine given.
PasteCommands(cb, cursor_position, columns, beat, selected_line) ==
    IF ~PasteReaches(cursor_position) THEN <<>>
    ELSE LET timeline == FindTimeline(columns, cursor_position[1].x)
         IN IF timeline = <<>> THEN <<>>
            ELSE LET target_line ==
                       line_entity_from_fallback(timeline[1], selected_line)
                     sequence == PasteSequence(cb, target_line, beat)
                 IN IF sequence # <<>>
                    THEN <<CommandSequenceNew(sequence)>>
                    ELSE <<>>

\* project_loaded(): the Project resource exists.
project_loaded == project # <<>>

\* configure_sets(PostUpdate, GameSet.run_if(project_loaded())): the schedules
\* in which GameSet carries the run condition.
GameSetConditioned == {"PostUpdate"}

\* A system added to the schedule with in_set(GameSet) runs in a tick unless
\* the set carries the run condition in that schedule and no project is
\* loaded.
GameSetRuns(schedule) ==
    schedule \in GameSetConditioned => project_loaded

\* Ctrl+C is just pressed: handle_copy_system.
handle_copy_system ==
    /\ ~panicked
    /\ running
    /\ GameSetRuns("Update")
    /\ \E order \in Orders(SelectedQuery(world, selected)) :
          clipboard' = CopiedClipboard(clipboard, world, order)
    /\ lastClip' = [op |-> "copy", before |-> clipboard]
    /\ lastOp' = Op("copy", NoCommand, world)
    /\ phase' = 0
    /\ ran' = <<>>
    /\ run' = "other"
    /\ UNCHANGED <<world, done, redo, saved, selectedLine, panicked, selected>>
    /\ UNCHANGED <<projectVars, hotkeyVars, timelineVars, loadVars>>

\* Ctrl+X is just pressed: handle_cut_system, and the DoCommandEvent it sends
\* is handled.
handle_cut_system ==
    /\ running
    /\ GameSetRuns("Update")
    /\ Len(done) < MaxClipDone
    /\ \E order \in Orders(SelectedQuery(world, selected)) :
          /\ clipboard' = CopiedClipboard(clipboard, world, order)
          /\ Do(CommandSequenceNew(CollectSelected(world, order).commands))
    /\ lastClip' = [op |-> "cut", before |-> clipboard]
    /\ UNCHANGED <<projectVars, hotkeyVars, timelineVars, loadVars>>

\* The clipboard holds nothing: min() over its beats is None.
ClipboardEmpty(cb) == cb.notes = <<>> /\ cb.events = <<>>

\* Ctrl+V is just pressed: handle_paste_system, and the DoCommandEvent it
\* sends, if any, is handled.  The inputs are the cursor, the line the second
\* column is bound to (read once the cursor is inside the viewport) and the
\* quantized beat under the cursor (read once a timeline and a min_beat are
\* found).  The system takes Res<BpmList>: it panics when the resource does
\* not exist.
handle_paste_system ==
    /\ ~panicked
    /\ running
    /\ GameSetRuns("Update")
    /\ IF "bpm_list" \notin resources
       THEN /\ panicked' = TRUE
            /\ lastClip' = [op |-> "paste", cursor_position |-> <<>>,
                            timeline |-> <<>>, beat |-> 0, sent |-> <<>>]
            /\ lastOp' = Op("paste", NoCommand, world)
            /\ phase' = 0
            /\ ran' = <<>>
            /\ run' = "other"
            /\ UNCHANGED <<world, done, redo, saved, selectedLine, selected>>
       ELSE
       \E cursor_position \in CursorPositions :
       \E bound \in IF PasteReaches(cursor_position)
                    THEN Lines(world) ELSE {None} :
          LET timeline == IF PasteReaches(cursor_position)
                          THEN FindTimeline(Allocate(bound),
                                            cursor_position[1].x)
                          ELSE <<>>
          IN \E beat \in IF timeline = <<>> \/ ClipboardEmpty(clipboard)
                         THEN {0} ELSE 0..MaxBeat :
                LET sent == PasteCommands(clipboard, cursor_position,
                                          Allocate(bound), beat, selectedLine)
                IN /\ lastClip' = [op |-> "paste",
                                   cursor_position |-> cursor_position,
                                   timeline |-> timeline,
                                   beat |-> beat,
                                   sent |-> sent]
                   /\ IF sent = <<>>
                      THEN /\ lastOp' = Op("paste", NoCommand, world)
                           /\ phase' = 0
                           /\ ran' = <<>>
                           /\ run' = "other"
                           /\ UNCHANGED <<world, done, redo, saved,
                                          selectedLine, panicked, selected>>
                      ELSE /\ Len(done) < MaxPasteDone
                           /\ Len(world) + Len(sent[1].commands) <= MaxClipEnt
                           /\ Do(sent[1])
    /\ UNCHANGED <<clipboard, projectVars, hotkeyVars, timelineVars, loadVars>>

\* The user takes one entity out of the selection: its Selected tag is removed.
Deselect ==
    /\ ~panicked
    /\ \E e \in selected : selected' = selected \ {e}
    /\ lastOp' = Op("deselect", NoCommand, world)
    /\ phase' = 0
    /\ ran' = <<>>
    /\ UNCHANGED <<world, done, redo, saved, selectedLine, panicked, run>>
    /\ UNCHANGED <<clipVars, projectVars, hotkeyVars, timelineVars, loadVars>>

\* load at the grain of the clipboard: the line, then its notes, then its
\* events, each an entity of its own, for every LineWrapper in order.
RECURSIVE LoadEntities(_, _)
LoadEntities(lines, w) ==
    IF lines = <<>> THEN w
    ELSE LET lw == Head(lines)
             id == Len(w) + 1
             notes == [i \in DOMAIN lw.notes |-> NoteEntity(lw.notes[i], id)]
             events ==
                 [i \in DOMAIN lw.events |-> LineEventEntity(lw.events[i], id)]
         IN LoadEntities(Tail(lines),
                         w \o <<LineEntity(LineWrapper(lw.line, <<>>, <<>>), None)>>
                           \o notes \o events)

\* What copies of notes and events of that chart leave in the clipboard.
ClipboardInputs ==
    {[notes |-> ns, events |-> es] :
        ns \in {<<>>, <<Note(2)>>, <<Note(2), Note(3)>>, <<Note(3), Note(2)>>},
        es \in {<<>>, <<LineEvent(1, 3)>>}}

\* The charts a clipboard run starts from.
InitClipCharts ==
    { << LineWrapper(1, <<Note(2), Note(3)>>, <<LineEvent(1, 3)>>),
         LineWrapper(2, <<>>, <<>>) >> }

(* ------------------------------- project ------------------------------- *)

\* A file that holds contents, and a file a failed write has left damaged.
File(contents) == [damaged |-> FALSE, contents |-> contents]
Damaged == [damaged |-> TRUE, contents |-> <<>>]

\* project.meta, serialized.
ProjectMeta == <<"meta">>

\* The project directory a run starts from: the chart that was loaded.
ProjectOnDisk(chart) == [chart |-> File(chart), meta |-> File(ProjectMeta)]

\* PhiChainExporter::export(world), when it is Ok: the lines of the world, in
\* entity order, each with its notes and events.
RECURSIVE ExportLines(_, _)
ExportLines(w, e) ==
    IF e > Len(w) THEN <<>>
    ELSE (IF IsLine(w, e) THEN <<serialize_line(w, e)>> ELSE <<>>)
         \o ExportLines(w, e + 1)

export(w) == ExportLines(w, 1)

\* std::fs::write(path, contents): Ok and the file holds contents, or Err and
\* the file is as it was or damaged.
Written(old, contents, ok) ==
    IF ok THEN {contents} ELSE {old, Damaged}

\* save_project_system: the history is not touched, the marker stays.
SavedAfterSave(chart_ok, meta_ok) == saved

\* save_project_system on the world w with the Project resource proj (<<>>
\* when there is none) and the directory d: what it leaves.  Nothing happens
\* when the export fails; world.resource::<Project>() panics when there is
\* no Project; otherwise both files are written, the meta file also after a
\* failed chart write, and one toast tells the outcome.
SaveOutcomes(w, proj, d) ==
    {[exported |-> FALSE, chart_ok |-> FALSE, meta_ok |-> FALSE, disk |-> d,
      toasts |-> <<>>, panicked |-> FALSE]}
    \cup
    (IF proj = <<>>
     THEN {[exported |-> TRUE, chart_ok |-> FALSE, meta_ok |-> FALSE,
            disk |-> d, toasts |-> <<>>, panicked |-> TRUE]}
     ELSE UNION {
            {[exported |-> TRUE, chart_ok |-> ok[1], meta_ok |-> ok[2],
              disk |-> [chart |-> c, meta |-> m],
              toasts |-> <<IF ok[1] /\ ok[2] THEN "project.save.succeed"
                                             ELSE "project.save.failed">>,
              panicked |-> FALSE] :
               c \in Written(d.chart, File(export(w)), ok[1]),
               m \in Written(d.meta, File(ProjectMeta), ok[2])} :
            ok \in BOOLEAN \X BOOLEAN})

\* The action "phichain.project.save" runs: save_project_system.
\* lastOp.toasts holds the messages this run gave to the ToastsStorage.
save_project_system ==
    /\ ~panicked
    /\ \E o \in SaveOutcomes(world, project, disk) :
          /\ disk' = o.disk
          /\ toast' = IF o.toasts = <<>> THEN toast ELSE o.toasts[1]
          /\ panicked' = o.panicked
          /\ saved' = SavedAfterSave(o.chart_ok, o.meta_ok)
          /\ lastOp' = [op |-> "save", cmd |-> NoCommand, before |-> world,
                        exported |-> o.exported,
                        written |-> o.chart_ok /\ o.meta_ok,
                        toasts |-> o.toasts]
    /\ phase' = 0
    /\ ran' = <<>>
    /\ run' = "other"
    /\ UNCHANGED <<world, done, redo, selectedLine, selected>>
    /\ UNCHANGED <<clipVars, hotkeyVars, timelineVars, loadVars>>

DoCommandProject ==
    /\ \E c \in Inputs : Len(done) < MaxProjectDone /\ Do(c)
    /\ UNCHANGED <<clipVars, projectVars, hotkeyVars, timelineVars, loadVars>>

(* --------------------------- action registry --------------------------- *)

\* Hotkey::new(key, modifiers)
Hotkey(key, modifiers) == [key |-> key, modifiers |-> modifiers]

\* The modifier keys and all the keys of the keyboard.
Modifiers == {"Control"}
AllKeys == {"KeyS"} \cup Modifiers

\* The actions an app registers and the chords it binds them to.
ActionIds == {"phichain.debug", "phichain.project.save"}
Chords == {Hotkey("KeyS", {"Control"}), Hotkey("KeyS", {})}

\* The systems an app registers as actions: the closure of ActionPlugin and
\* save_project_system.
Systems == {"hello", "save_project_system"}

\* RegisteredAction { system, enable_hotkey }
RegisteredAction(system, enable_hotkey) ==
    [system |-> system, enable_hotkey |-> enable_hotkey]

\* A map insert that keeps the entry a key already has.
Insert_KeepFirst(map, k, v) ==
    [x \in DOMAIN map \cup {k} |-> IF x \in DOMAIN map THEN map[x] ELSE v]

\* HashMap::insert: the entry of key k is v, whatever it was.
Insert(map, k, v) ==
    [x \in DOMAIN map \cup {k} |-> IF x = k THEN v ELSE map[x]]

\* One call register_action(id, system, hotkey), hotkey <<>> (None) or
\* <<chord>>.
Registration(id, system, hotkey) ==
    [id |-> id, system |-> system, hotkey |-> hotkey]

\* ActionPlugin::build: "phichain.debug" is registered with no hotkey.
ActionRegistryAtBuild ==
    Insert(<<>>, "phichain.debug", RegisteredAction("hello", FALSE))

RegisteredAtBuild == <<Registration("phichain.debug", "hello", <<>>)>>

\* App::register_action(id, system, hotkey): the registry entry is inserted,
\* then the hotkey is added if there is one.
register_action(id, system, hotkey) ==
    /\ ~running
    /\ registry' = Insert(registry, id, RegisteredAction(system, hotkey # <<>>))
    /\ hotkeys' = IF hotkey # <<>> THEN Insert(hotkeys, id, hotkey[1])
                  ELSE hotkeys
    /\ registered' = Append(registered, Registration(id, system, hotkey))
    /\ UNCHANGED <<keyboard, dispatched, running>>
    /\ UNCHANGED <<historyVars, clipVars, projectVars, timelineVars, loadVars>>

RegisterAction ==
    /\ Len(registered) < MaxRegistered
    /\ \E id \in ActionIds : \E system \in Systems :
       \E hotkey \in {<<>>} \cup {<<c>> : c \in Chords} :
          register_action(id, system, hotkey)

\* The app is built: the loop starts to tick.
Run ==
    /\ ~running
    /\ running' = TRUE
    /\ UNCHANGED <<registry, hotkeys, keyboard, dispatched, registered>>
    /\ UNCHANGED <<historyVars, clipVars, projectVars, timelineVars, loadVars>>

\* A run_action that runs the debug closure for an id it does not know.
run_action_Fallback(reg, id) ==
    IF id \in DOMAIN reg THEN <<reg[id].system>> ELSE <<"hello">>

\* ActionRegistry::run_action(world, id): <<the system run>>, or <<>> when the
\* id is unknown (an error is logged).
run_action(reg, id) == IF id \in DOMAIN reg THEN <<reg[id].system>> ELSE <<>>

\* HotkeyContext::just_pressed(id) in a tick that starts with the keys `held`
\* down and has the keys `now` down: the chord of id is bound, its key went
\* down in this tick and the modifiers down are exactly its modifiers.
just_pressed(id, held, now) ==
    /\ id \in DOMAIN hotkeys
    /\ hotkeys[id].key \in now \ held
    /\ now \cap Modifiers = hotkeys[id].modifiers

\* A dispatcher that does not look at enable_hotkey.
RECURSIVE ActionsToRun_NoFilter(_, _, _)
ActionsToRun_NoFilter(order, held, now) ==
    IF order = <<>> THEN <<>>
    ELSE (IF just_pressed(Head(order), held, now)
          THEN <<Head(order)>> ELSE <<>>)
         \o ActionsToRun_NoFilter(Tail(order), held, now)

\* handle_action_hotkey_system, the collecting loop: the ids of the registry,
\* in the order the map yields them, that are hotkey-driven and just pressed.
RECURSIVE ActionsToRun(_, _, _)
ActionsToRun(order, held, now) ==
    IF order = <<>> THEN <<>>
    ELSE (IF registry[Head(order)].enable_hotkey
             /\ just_pressed(Head(order), held, now)
          THEN <<Head(order)>> ELSE <<>>)
         \o ActionsToRun(Tail(order), held, now)

\* What the systems run in one step have left so far: the directory, the
\* toast shown, whether one has panicked, the ids whose system was run and
\* the ids logged as unknown.
Effects(d, t) ==
    [disk |-> d, toast |-> t, panicked |-> FALSE, ran |-> <<>>,
     logged |-> <<>>]

\* RegisteredAction::run(world): the system runs on the world w.
RunSystem(system, w, proj, e) ==
    IF system = "save_project_system"
    THEN {[e EXCEPT !.disk = o.disk,
                    !.toast = IF o.toasts = <<>> THEN @ ELSE o.toasts[1],
                    !.panicked = o.panicked] :
             o \in SaveOutcomes(w, proj, e.disk)}
    ELSE {e}

\* registry.run_action(world, id) after the effects e: the system of id is
\* run once, or the id is logged with error!; nothing runs after a panic.
RunOne(reg, id, w, proj, e) ==
    IF e.panicked THEN {e}
    ELSE LET action == run_action(reg, id)
         IN IF action = <<>> THEN {[e EXCEPT !.logged = Append(@, id)]}
            ELSE RunSystem(action[1], w, proj,
                           [e EXCEPT !.ran = Append(@, id)])

\* run_action for each id of ids in turn.
RECURSIVE RunAll(_, _, _, _, _)
RunAll(reg, ids, w, proj, E) ==
    IF ids = <<>> THEN E
    ELSE RunAll(reg, Tail(ids), w, proj,
                UNION {RunOne(reg, Head(ids), w, proj, e) : e \in E})

\* One tick of the loop with the keys `now` down: handle_action_hotkey_system
\* collects the actions to run and runs them.
handle_action_hotkey_system ==
    /\ running
    /\ ~panicked
    /\ GameSetRuns("Update")
    /\ \E now \in SUBSET AllKeys :
       \E order \in Orders(DOMAIN registry) :
       \E e \in RunAll(registry, ActionsToRun(order, keyboard, now), world,
                       project, {Effects(disk, toast)}) :
          /\ dispatched' = e.ran
          /\ keyboard' = now
          /\ disk' = e.disk
          /\ toast' = e.toast
          /\ panicked' = e.panicked
          /\ lastOp' = [op |-> "tick", cmd |-> NoCommand, before |-> world,
                        logged |-> e.logged]
    /\ UNCHANGED <<registry, hotkeys, running, registered>>
    /\ UNCHANGED <<world, done, redo, saved, selectedLine, run, phase, ran,
                   selected>>
    /\ UNCHANGED <<clipVars, timelineVars, loadVars>>

\* The ids the File menu of ui_system runs: save and close.
MenuActions == {"phichain.project.save", "phichain.project.unload"}

\* ui_system, File menu: a button is clicked and run_action(id) is called.
\* ui_system runs only while a project is loaded.
ui_system ==
    /\ running
    /\ ~panicked
    /\ project_loaded
    /\ \E id \in MenuActions :
       \E e \in RunOne(registry, id, world, project, Effects(disk, toast)) :
          /\ disk' = e.disk
          /\ toast' = e.toast
          /\ panicked' = e.panicked
          /\ lastOp' = [op |-> "run_action", cmd |-> NoCommand,
                        before |-> world, id |-> id, ran |-> e.ran,
                        logged |-> e.logged]
    /\ UNCHANGED <<world, done, redo, saved, selectedLine, run, phase, ran,
                   selected>>
    /\ UNCHANGED <<clipVars, hotkeyVars, timelineVars, loadVars>>

(* ----------------------------- project load --------------------------- *)

\* The format the migration pipeline brings a chart to.
CurrentFormat == 1

\* A LineTree of chart.json: { line, notes, events, children }.
LineTree(line, notes, events, children) ==
    [line |-> line, notes |-> notes, events |-> events, children |-> children]

\* The contents of a chart.json: text that is no JSON, or a tree with its
\* format number, the layout of its fields ("old": the layout of format 0,
\* "current", or "invalid": no layout of any format) and its lines.
NotJson == [json |-> FALSE, format |-> 0, layout |-> "invalid", lines |-> <<>>]
ChartJson(format, layout, lines) ==
    [json |-> TRUE, format |-> format, layout |-> layout, lines |-> lines]

\* ProjectMeta { composer, charter, illustrator, name, level }
ProjectMetaOf(name, level) ==
    [composer |-> "", charter |-> "", illustrator |-> "", name |-> name,
     level |-> level]

\* ProjectMeta::default()
ProjectMetaDefault == ProjectMetaOf("", "")

\* The contents of a meta.json: the object it holds, and whether it is JSON
\* with every field of ProjectMeta.
MetaJson(valid) == [valid |-> valid, object |-> ProjectMetaDefault]

\* serde_json::to_string_pretty(&project_meta)
to_string_pretty(project_meta) == [valid |-> TRUE, object |-> project_meta]

\* A project directory: chart.json and meta.json, <<>> when missing, and the
\* extensions of the files named music.* and illustration.*.
ProjectDir(chart, meta, music, illustration) ==
    [chart |-> chart, meta |-> meta, music |-> music,
     illustration |-> illustration]

\* ProjectPath::find_file(name, allowed_extensions): <<>> or <<extension>> of
\* a file of that name with an allowed extension (read_dir yields any first).
find_file(extensions, allowed_extensions) ==
    IF extensions \cap allowed_extensions = {} THEN {<<>>}
    ELSE {<<ext>> : ext \in extensions \cap allowed_extensions}

\* A music_path that takes a file named music whatever its extension.
music_path_AnyExtension(dir) ==
    IF dir.music = {} THEN {<<>>} ELSE {<<ext>> : ext \in dir.music}

\* ProjectPath::music_path
music_path(dir) == find_file(dir.music, {"wav", "mp3", "ogg", "flac"})

\* ProjectPath::illustration_path
illustration_path(dir) == find_file(dir.illustration, {"png", "jpg", "jpeg"})

\* serde_json::from_reader::<PhiChainChart>: the text is JSON and has the
\* fields of the current layout.
FromReader(file) == file.json /\ file.layout = "current"

\* The Project resource: the path and the ProjectMeta read from meta.json.
Project(dir) == [path |-> dir, meta |-> dir.meta[1].object]

Ok(value) == [ok |-> TRUE, value |-> <<value>>, error |-> ""]
Err(error) == [ok |-> FALSE, value |-> <<>>, error |-> error]

\* ProjectPath::into_project
into_project(dir) ==
    IF dir.chart = <<>> THEN Err("chart.json is missing")
    ELSE IF <<>> \in music_path(dir)
    THEN Err("Could not find music file in project")
    ELSE IF <<>> \in illustration_path(dir)
    THEN Err("Could not find illustration file in project")
    ELSE IF dir.meta = <<>> THEN Err("meta.json is missing")
    ELSE IF ~dir.meta[1].valid THEN Err("Invalid meta file")
    ELSE IF ~FromReader(dir.chart[1]) THEN Err("Invalid chart")
    ELSE Ok(Project(dir))

\* migrate(&chart): a format above the current one is refused, a tree that
\* has not the layout of its format fails, an older tree is brought to the
\* current format and layout.
migrate(tree) ==
    IF tree.format > CurrentFormat THEN Err("UnsupportedFutureFormat")
    ELSE IF tree.layout = "invalid"
            \/ (tree.layout = "old") # (tree.format < CurrentFormat)
    THEN Err("Migration failed")
    ELSE Ok([tree EXCEPT !.format = CurrentFormat, !.layout = "current"])

\* serde_json::from_value::<PhichainChart>, the lines: each LineTree is read
\* as a LineWrapper { line, notes, events }, which has no field for children.
from_value(lines) ==
    [i \in DOMAIN lines |->
        LineWrapper(lines[i].line, lines[i].notes, lines[i].events)]

\* The chart resources load inserts.
ChartResources == {"offset", "bpm_list"}

\* What load leaves: Ok or the error, the world and the resources.
Loaded(result, w, res) == [result |-> result, w |-> w, resources |-> res]

\* A load that inserts the resources before it has read the file.
load_InsertFirst(file, w, res) ==
    IF ~file.json THEN Loaded(Err("Failed to load chart"), w, ChartResources)
    ELSE LET migrated == migrate(file)
         IN IF ~migrated.ok
            THEN Loaded(Err("Migration failed"), w, ChartResources)
            ELSE Loaded(Ok("loaded"),
                        LoadEntities(from_value(migrated.value[1].lines), w),
                        res \cup ChartResources)

\* load(file, commands): read the JSON, migrate, deserialize, then insert the
\* resources and spawn the lines with their notes and events.
load(file, w, res) ==
    IF ~file.json THEN Loaded(Err("Failed to load chart"), w, res)
    ELSE LET migrated == migrate(file)
         IN IF ~migrated.ok THEN Loaded(Err("Migration failed"), w, res)
            ELSE IF ~FromReader(migrated.value[1])
            THEN Loaded(Err("Failed to deserialize chart"), w, res)
            ELSE Loaded(Ok("loaded"),
                        LoadEntities(from_value(migrated.value[1].lines), w),
                        res \cup ChartResources)

\* The line forests of the chart files: none, a line with a note and an
\* event, two lines, and a line with a child line.
LoadForests ==
    { <<>>,
      <<LineTree(1, <<Note(2)>>, <<LineEvent(1, 3)>>, <<>>)>>,
      <<LineTree(1, <<Note(2)>>, <<>>, <<>>),
        LineTree(2, <<>>, <<LineEvent(1, 3)>>, <<>>)>>,
      <<LineTree(1, <<Note(2)>>, <<>>,
                 <<LineTree(2, <<Note(3)>>, <<LineEvent(1, 3)>>, <<>>)>>)>> }

\* The chart.json files: no JSON, and for each forest a file of format 0 in
\* the old layout, one of the current format, one of a later format and one
\* whose fields fit no layout.
ChartFiles ==
    {NotJson}
    \cup {ChartJson(f[1], f[2], lines) :
            f \in {<<0, "old">>, <<CurrentFormat, "current">>,
                   <<CurrentFormat + 1, "current">>,
                   <<CurrentFormat, "invalid">>},
            lines \in LoadForests}

\* The directories a LoadProjectEvent names.
ProjectDirs ==
    {ProjectDir(chart, meta, music, illustration) :
        chart \in {<<>>} \cup {<<c>> : c \in ChartFiles},
        meta \in {<<>>, <<MetaJson(FALSE)>>, <<MetaJson(TRUE)>>},
        music \in {{}, {"wav"}, {"txt"}},
        illustration \in {{}, {"png"}, {"gif"}}}

\* PhiChainChart::default(), serialized: the empty chart of the current
\* format.
PhiChainChartDefault == ChartJson(CurrentFormat, "current", <<>>)

\* path.extension() of the files a project is created from: None, or Some.
MusicSources == {<<>>, <<"wav">>, <<"m4a">>}

IllustrationSources == {<<"png">>, <<"webp">>}

\* The steps of create_project that do I/O, and "none".
CreateSteps == {"music", "illustration", "meta", "chart", "none"}

\* The name of a copy: "music" or "illustration" with the extension of the
\* source set, if it has one ("" stands for a name with no extension).
set_extension(extension) == IF extension = <<>> THEN "" ELSE extension[1]

\* create_project(root_path, music_path, illustration_path, project_meta):
\* the music and the illustration are copied, then meta.json and chart.json
\* are written; the step that fails, if any, ends it with what was done so
\* far (a write that failed leaves the file as it was or unreadable).
create_project(root_path, music_file, illustration_file, project_meta, failed) ==
    LET d1 == [root_path EXCEPT
                  !.music = @ \cup {set_extension(music_file)}]
        d2 == [d1 EXCEPT
                  !.illustration = @ \cup {set_extension(illustration_file)}]
        d3 == [d2 EXCEPT !.meta = <<to_string_pretty(project_meta)>>]
        d4 == [d3 EXCEPT !.chart = <<PhiChainChartDefault>>]
    IN IF failed = "music"
       THEN {[result |-> Err("Failed to copy music file"), dir |-> root_path]}
       ELSE IF failed = "illustration"
       THEN {[result |-> Err("Failed to copy illustration file"), dir |-> d1]}
       ELSE IF failed = "meta"
       THEN {[result |-> Err("Failed to write meta"), dir |-> d] :
                d \in {d2, [d2 EXCEPT !.meta = <<MetaJson(FALSE)>>]}}
       ELSE IF failed = "chart"
       THEN {[result |-> Err("Failed to write chart"), dir |-> d] :
                d \in {d3, [d3 EXCEPT !.chart = <<NotJson>>]}}
       ELSE {[result |-> Ok("created"), dir |-> d4]}

\* The directories a project is created in: an empty one, and one that holds
\* a music.ogg already.
RootDirs ==
    {ProjectDir(<<>>, <<>>, {}, {}), ProjectDir(<<>>, <<>>, {"ogg"}, {})}

\* The user fills in the new-project form while no project is loaded:
\* create_project runs, and when it is Ok the project is requested.
CreateProject ==
    /\ running
    /\ project = <<>>
    /\ loadEvents = <<>>
    /\ \E root_path \in RootDirs :
       \E music_file \in MusicSources :
       \E illustration_file \in IllustrationSources :
       \E project_meta \in {ProjectMetaDefault, ProjectMetaOf("a", "IN 12")} :
       \E failed \in CreateSteps :
       \E out \in create_project(root_path, music_file, illustration_file,
                                 project_meta, failed) :
          /\ loadEvents' = IF out.result.ok THEN <<out.dir>> ELSE <<>>
          /\ lastOp' = [op |-> "create", cmd |-> NoCommand, before |-> <<>>,
                        root_path |-> root_path, music_path |-> music_file,
                        illustration_path |-> illustration_file,
                        project_meta |-> project_meta,
                        result |-> out.result, dir |-> out.dir]
    /\ UNCHANGED <<world, done, redo, saved, selectedLine, panicked, run, phase,
                   ran, selected>>
    /\ UNCHANGED <<project, resources>>
    /\ UNCHANGED <<clipVars, projectVars, hotkeyVars, timelineVars>>

\* The directories the user opens from the home screen.
RequestDirs ==
    {ProjectDir(<<ChartJson(CurrentFormat, "current", lines)>>,
                <<MetaJson(TRUE)>>, music, {"png"}) :
        lines \in {<<>>, <<LineTree(1, <<Note(2)>>, <<>>, <<>>)>>},
        music \in {{"wav"}, {}}}

\* apply_args_config_system, a Startup system: the project named on the
\* command line, if any, is requested; then the loop starts to tick.
apply_args_config_system ==
    /\ ~running
    /\ \E args_project \in {<<>>} \cup {<<dir>> : dir \in ProjectDirs} :
          loadEvents' = loadEvents \o args_project
    /\ running' = TRUE
    /\ lastOp' = Op("startup", NoCommand, <<>>)
    /\ UNCHANGED <<world, done, redo, saved, selectedLine, panicked, run, phase,
                   ran, selected>>
    /\ UNCHANGED <<registry, hotkeys, keyboard, dispatched, registered>>
    /\ UNCHANGED <<project, resources>>
    /\ UNCHANGED <<clipVars, projectVars, timelineVars>>

\* The user opens a project while none is loaded: a LoadProjectEvent is sent.
OpenProject ==
    /\ running
    /\ project = <<>>
    /\ Len(loadEvents) < MaxPending
    /\ \E dir \in RequestDirs : loadEvents' = Append(loadEvents, dir)
    /\ lastOp' = Op("open", NoCommand, <<>>)
    /\ UNCHANGED <<world, done, redo, saved, selectedLine, panicked, run, phase,
                   ran, selected>>
    /\ UNCHANGED <<project, resources>>
    /\ UNCHANGED <<clipVars, projectVars, hotkeyVars, timelineVars>>

\* A reader that takes the oldest of the pending events.
Requested_First(pending) == pending[1]

\* events.read().last(): the newest of the pending events.
Requested(pending) == pending[Len(pending)]

\* load_project_system in a tick with LoadProjectEvents pending (with none
\* it does nothing): the last one is taken; when Project::load is Ok the
\* chart is loaded (the outcome of the load is dropped) and the Project is
\* inserted; when it is an error the error is toasted; then the events are
\* cleared.
load_project_system ==
    /\ ~panicked
    /\ running
    /\ loadEvents # <<>>
    /\ project = <<>>
    /\ LET dir == Requested(loadEvents)
           r == into_project(dir)
       IN IF r.ok
          THEN LET l == load(dir.chart[1], world, resources)
               IN /\ world' = l.w
                  /\ resources' = l.resources
                  /\ project' = r.value
                  /\ toast' = toast
                  /\ lastOp' = [op |-> "load", cmd |-> NoCommand,
                                before |-> world, dir |-> dir,
                                project |-> TRUE, chart |-> l.result.ok,
                                pending |-> loadEvents]
          ELSE /\ toast' = "Failed to open project"
               /\ lastOp' = [op |-> "load", cmd |-> NoCommand,
                             before |-> world, dir |-> dir,
                             project |-> FALSE, chart |-> FALSE,
                             pending |-> loadEvents]
               /\ UNCHANGED <<world, resources, project>>
    /\ loadEvents' = <<>>
    /\ phase' = 0
    /\ ran' = <<>>
    /\ UNCHANGED <<done, redo, saved, selectedLine, panicked, run, selected>>
    /\ UNCHANGED <<disk, clipVars, hotkeyVars, timelineVars>>

\* The user closes the toast.
DismissToast ==
    /\ toast # ""
    /\ toast' = ""
    /\ lastOp' = Op("dismiss", NoCommand, <<>>)
    /\ UNCHANGED <<world, done, redo, saved, selectedLine, panicked, run, phase,
                   ran, selected>>
    /\ UNCHANGED <<disk, clipVars, hotkeyVars, timelineVars, loadVars>>

(* ------------------------ timeline: hold resize ----------------------- *)

\* Beats are counted in units of which Grid make one step of the grid the
\* settings attach to, so that a beat between two grid points has a value
\* (the float shadow of the beat).
Grid == 3

\* A hold note: NoteKind::Hold { hold_beat } at beat.
HoldNote(beat, hold_beat) ==
    [kind |-> "Hold", beat |-> beat, hold_beat |-> hold_beat]

\* Note::end_beat() and Note::set_end_beat(end_beat) of a hold.
end_beat(note) == note.beat + note.hold_beat
set_end_beat(note, end) == [note EXCEPT !.hold_beat = end - note.beat]

\* ctx.settings.attach(value): the grid point nearest to the value.
attach(value) == Grid * ((2 * value + Grid) \div (2 * Grid))

\* ctx.beat_to_y(beat) and ctx.y_to_beat_f32(y): later beats are higher up,
\* one unit a pixel.
beat_to_y(beat) == 0 - beat
y_to_beat_f32(y) == 0 - y

\* The y deltas of one frame of a drag.
DragDeltas == {-2, -1, 1, 2}

\* The holds the timeline draws drag zones for: the holds of its line.
HoldsShown ==
    {e \in Ids(world) :
        /\ IsNote(world, e)
        /\ world[e].parent
              = line_entity_from_fallback(NoteTimeline(None), selectedLine)
        /\ world[e].note.kind = "Hold"}

\* response.dragged() in the zone `start`: the float of the beat, or of the
\* hold_beat, follows the pointer; nothing is attached.
Dragged(note, start, drag_delta) ==
    IF start
    THEN LET new_y == beat_to_y(note.beat) + drag_delta
             new_beat == y_to_beat_f32(new_y)
         IN [note EXCEPT !.beat = note.beat + (new_beat - note.beat)]
    ELSE LET new_y == beat_to_y(end_beat(note)) + drag_delta
             end == y_to_beat_f32(new_y)
             hold_beat == end - note.beat
         IN [note EXCEPT
                !.hold_beat = note.hold_beat + (hold_beat - note.hold_beat)]

\* response.drag_stopped() in the zone `start`: the dragged end is attached.
Stopped(note, start) ==
    IF start THEN [note EXCEPT !.beat = attach(note.beat)]
    ELSE set_end_beat(note, attach(end_beat(note)))

\* A drag stop that sends its command whatever the note is.
StopSends_Always(from, to) == TRUE

\* if from != *note
StopSends(from, to) == from # to

\* The ends of the hold stay on the part of the timeline that is shown.
OnTimeline(note) ==
    note.beat \in 0..MaxUnit /\ end_beat(note) \in 0..MaxUnit

\* A frame in which the drag of a zone starts: the note is kept as the ui's
\* temporary data "hold-drag", then the frame's delta is applied.
drag_started ==
    /\ ~panicked
    /\ dragging = <<>>
    /\ Len(done) + Len(redo) < MaxHoldDone
    /\ \E e \in HoldsShown : \E start \in BOOLEAN :
       \E drag_delta \in DragDeltas \cup {0} :
          LET note == Dragged(world[e].note, start, drag_delta)
          IN /\ OnTimeline(note)
             /\ holdDrag' = <<world[e].note>>
             /\ dragging' = <<[entity |-> e, start |-> start]>>
             /\ world' = [world EXCEPT ![e].note = note]
    /\ lastOp' = Op("drag_started", NoCommand, <<>>)
    /\ phase' = 0
    /\ ran' = <<>>
    /\ UNCHANGED <<done, redo, saved, selectedLine, panicked, run, selected>>
    /\ UNCHANGED <<clipVars, projectVars, hotkeyVars, loadVars>>

\* A later frame of the drag.
dragged ==
    /\ ~panicked
    /\ dragging # <<>>
    /\ \E drag_delta \in DragDeltas :
          LET e == dragging[1].entity
              note == Dragged(world[e].note, dragging[1].start, drag_delta)
          IN /\ OnTimeline(note)
             /\ world' = [world EXCEPT ![e].note = note]
    /\ lastOp' = Op("dragged", NoCommand, <<>>)
    /\ phase' = 0
    /\ ran' = <<>>
    /\ UNCHANGED <<done, redo, saved, selectedLine, panicked, run, selected>>
    /\ UNCHANGED <<clipVars, projectVars, hotkeyVars, timelineVars, loadVars>>

\* The frame in which the pointer is released: the temporary data is taken,
\* the dragged end is attached and an EditNote is sent if the note changed.
drag_stopped ==
    /\ ~panicked
    /\ dragging # <<>>
    /\ LET e == dragging[1].entity
           from == holdDrag[1]
           to == Stopped(world[e].note, dragging[1].start)
       IN IF StopSends(from, to)
          THEN Do(EditNoteNew(e, from, to))
          ELSE /\ world' = [world EXCEPT ![e].note = to]
               /\ lastOp' = Op("drag_stopped", NoCommand, <<>>)
               /\ phase' = 0
               /\ ran' = <<>>
               /\ UNCHANGED <<done, redo, saved, selectedLine, panicked, run,
                              selected>>
    /\ holdDrag' = <<>>
    /\ dragging' = <<>>
    /\ UNCHANGED <<clipVars, projectVars, hotkeyVars, loadVars>>

\* The charts a run of hold resizes starts from: one hold at the first grid
\* step, one or two grid steps long.
InitHoldCharts ==
    { << LineWrapper(1, <<HoldNote(Grid, Grid)>>, <<>>) >>,
      << LineWrapper(1, <<HoldNote(Grid, 2 * Grid)>>, <<>>) >> }

(* ------------------------- initial states, specs ----------------------- *)

\* No drag is under way.
InitTimeline ==
    /\ holdDrag = <<>>
    /\ dragging = <<>>

\* A project is loaded: the Project resource and the chart resources exist.
InitLoaded ==
    /\ project \in {<<Project(ProjectDir(<<>>, <<MetaJson(TRUE)>>, {"wav"},
                                         {"png"}))>>}
    /\ resources = ChartResources
    /\ loadEvents = <<>>

\* The history of a project that was just loaded.
InitHistory ==
    /\ done = <<>>
    /\ redo = <<>>
    /\ saved = 0
    /\ panicked = FALSE
    /\ lastOp = Op("init", NoCommand, <<>>)
    /\ phase = 0
    /\ ran = <<>>
    /\ selected = {}

InitClip ==
    /\ clipboard = EditorClipboardDefault
    /\ lastClip = NoClip

\* The registry and the keyboard of an app that is built and ticking, with
\* the registrations of ActionPlugin alone.
InitHotkeys ==
    /\ registry = ActionRegistryAtBuild
    /\ hotkeys = <<>>
    /\ keyboard = {}
    /\ dispatched = <<>>
    /\ running = TRUE
    /\ registered = RegisteredAtBuild

Init ==
    /\ \E chart \in InitCharts :
          /\ world = LoadLines(chart)
          /\ disk = ProjectOnDisk(chart)
    /\ toast = ""
    /\ InitTimeline
    /\ InitLoaded
    /\ selectedLine = None
    /\ run = IF world = <<>> THEN "dos" ELSE "other"
    /\ InitHistory
    /\ InitClip
    /\ InitHotkeys

\* The command stack alone: commands are submitted, undone and redone.
Next ==
    \/ DoCommand
    \/ Undo
    \/ Redo

Spec == Init /\ [][Next]_vars

\* An editing session: commands, and the user saves and selects lines.
NextSession ==
    \/ DoCommandSession
    \/ Undo
    \/ Redo
    \/ MarkSaved
    \/ SelectLine

SpecSession == Init /\ [][NextSession]_vars

\* A session in which the project is saved: commands and the save action.
NextProject ==
    \/ DoCommandProject
    \/ Undo
    \/ Redo
    \/ save_project_system

SpecProject == Init /\ [][NextProject]_vars

\* A chart with notes and events is loaded, a line is selected and the user
\* has put the Selected tag on some of the entities.
InitClipboard ==
    /\ \E chart \in InitClipCharts :
          /\ world = LoadEntities(chart, <<>>)
          /\ disk = ProjectOnDisk(chart)
    /\ toast = ""
    /\ InitTimeline
    /\ InitLoaded
    /\ selectedLine \in Lines(world)
    /\ run = "other"
    /\ done = <<>>
    /\ redo = <<>>
    /\ saved = 0
    /\ panicked = FALSE
    /\ lastOp = Op("init", NoCommand, <<>>)
    /\ phase = 0
    /\ ran = <<>>
    /\ selected \in SUBSET Ids(world)
    /\ InitClip
    /\ InitHotkeys

\* Copy and cut: the user narrows the selection, copies, cuts, undoes and
\* redoes.
NextClipboard ==
    \/ Deselect
    \/ handle_copy_system
    \/ handle_cut_system
    \/ Undo
    \/ Redo

SpecClipboard == InitClipboard /\ [][NextClipboard]_vars

\* The same chart with nothing selected and a clipboard that earlier copies
\* have filled.
InitPaste ==
    /\ \E chart \in InitClipCharts :
          /\ world = LoadEntities(chart, <<>>)
          /\ disk = ProjectOnDisk(chart)
    /\ toast = ""
    /\ InitTimeline
    /\ InitLoaded
    /\ selectedLine \in Lines(world)
    /\ run = "other"
    /\ InitHistory
    /\ clipboard \in ClipboardInputs
    /\ lastClip = NoClip
    /\ InitHotkeys

\* Paste: the user pastes, undoes and redoes.
NextPaste ==
    \/ handle_paste_system
    \/ Undo
    \/ Redo

SpecPaste == InitPaste /\ [][NextPaste]_vars

\* The app being built, nothing registered yet but what ActionPlugin registers.
InitRegistry ==
    /\ world = <<>>
    /\ disk = ProjectOnDisk(<<>>)
    /\ toast = ""
    /\ InitTimeline
    /\ InitLoaded
    /\ selectedLine = None
    /\ run = "other"
    /\ InitHistory
    /\ InitClip
    /\ registry = ActionRegistryAtBuild
    /\ hotkeys = <<>>
    /\ keyboard = {}
    /\ dispatched = <<>>
    /\ running = FALSE
    /\ registered = RegisteredAtBuild

\* The actions are registered, then the loop ticks and dispatches hotkeys.
NextHotkeys ==
    \/ RegisterAction
    \/ Run
    \/ handle_action_hotkey_system

SpecHotkeys == InitRegistry /\ [][NextHotkeys]_vars

\* The actions are registered, then the user edits and uses the File menu.
NextMenu ==
    \/ RegisterAction
    \/ Run
    \/ ui_system
    \/ DoCommandProject

SpecMenu == InitRegistry /\ [][NextMenu]_vars

\* An app that is built and started with no project loaded.
InitGate ==
    /\ world = <<>>
    /\ disk = ProjectOnDisk(<<>>)
    /\ toast = ""
    /\ InitTimeline
    /\ project = <<>>
    /\ resources = {}
    /\ loadEvents = <<>>
    /\ selectedLine = None
    /\ run = "other"
    /\ InitHistory
    /\ InitClip
    /\ registry = ActionRegistryAtBuild
    /\ hotkeys = <<>>
    /\ keyboard = {}
    /\ dispatched = <<>>
    /\ running = FALSE
    /\ registered = RegisteredAtBuild

\* The ticks of the editor while no project is loaded: the hotkey dispatcher
\* and the clipboard systems.
NextGate ==
    \/ RegisterAction
    \/ Run
    \/ handle_action_hotkey_system
    \/ handle_copy_system
    \/ handle_cut_system
    \/ handle_paste_system

SpecGate == InitGate /\ [][NextGate]_vars

\* A chart with one hold is loaded and its line is selected.
InitHold ==
    /\ \E chart \in InitHoldCharts :
          /\ world = LoadEntities(chart, <<>>)
          /\ disk = ProjectOnDisk(chart)
    /\ toast = ""
    /\ InitTimeline
    /\ InitLoaded
    /\ selectedLine \in Lines(world)
    /\ run = "other"
    /\ InitHistory
    /\ InitClip
    /\ InitHotkeys

\* Hold resize: the user drags the ends of the hold, undoes and redoes.
NextHold ==
    \/ drag_started
    \/ dragged
    \/ drag_stopped
    \/ Undo
    \/ Redo

SpecHold == InitHold /\ [][NextHold]_vars

\* The editor before it starts, with no project loaded.
InitNoProject ==
    /\ world = <<>>
    /\ disk = ProjectOnDisk(<<>>)
    /\ toast = ""
    /\ InitTimeline
    /\ project = <<>>
    /\ resources = {}
    /\ loadEvents = <<>>
    /\ selectedLine = None
    /\ run = "other"
    /\ InitHistory
    /\ InitClip
    /\ registry = ActionRegistryAtBuild
    /\ hotkeys = <<>>
    /\ keyboard = {}
    /\ dispatched = <<>>
    /\ running = FALSE
    /\ registered = RegisteredAtBuild

\* Opening the project named on the command line.
NextLoad ==
    \/ apply_args_config_system
    \/ load_project_system
    \/ DismissToast

SpecLoad == InitNoProject /\ [][NextLoad]_vars

\* The editor ticking with no project loaded: it was started with no project
\* on the command line.
InitHome ==
    /\ world = <<>>
    /\ disk = ProjectOnDisk(<<>>)
    /\ toast = ""
    /\ InitTimeline
    /\ project = <<>>
    /\ resources = {}
    /\ loadEvents = <<>>
    /\ selectedLine = None
    /\ run = "other"
    /\ InitHistory
    /\ InitClip
    /\ InitHotkeys

\* Opening projects from the home screen until one is loaded.
NextRequests ==
    \/ OpenProject
    \/ load_project_system
    \/ DismissToast

SpecRequests == InitHome /\ [][NextRequests]_vars

\* Creating projects from the home screen until one is loaded.
NextCreate ==
    \/ CreateProject
    \/ load_project_system
    \/ DismissToast

SpecCreate == InitHome /\ [][NextCreate]_vars

(* ------------------------------ the claims ----------------------------- *)

\* What the last step submitted, undid or redid.
DidDo(kind) == lastOp'.op = "do" /\ lastOp'.cmd.kind = kind /\ ~panicked'
DidUndo(kind) == lastOp'.op = "undo" /\ lastOp'.cmd.kind = kind /\ ~panicked'
DidRedo(kind) == lastOp'.op = "redo" /\ lastOp'.cmd.kind = kind /\ ~panicked'

\* The effect of applying command c on world w, giving w2 and the command c2
\* kept on the stack, stated without the edit operators.
Applied(c, c2, w, w2) ==
    /\ c2.kind = c.kind /\ c2.entity = c.entity /\ c2.target = c.target
    /\ c.kind = "CreateLine" =>
          /\ Len(w2) = Len(w) + 1
          /\ w2[Len(w2)].status = "line"
          /\ c2.created = Len(w2)
    /\ c.kind = "RemoveLine" =>
          /\ w2[c.entity].status = "empty"
          /\ c2.line # <<>>
          /\ c2.line[1].lw.notes = w[c.entity].notes
          /\ c2.line[1].lw.events = w[c.entity].events
          /\ c2.line[1].parent = w[c.entity].parent
    /\ c.kind = "MoveLineAsChild" =>
          /\ w2[c.entity].parent = c.target
          /\ c2.prev_parent = w[c.entity].parent

\* The effect of undoing command c (as kept on the stack) on w, giving w2.
Inverted(c, w, w2) ==
    /\ c.kind = "CreateLine" => w2[c.created].status = "gone"
    /\ c.kind = "RemoveLine" =>
          /\ w2[c.entity].status = "line"
          /\ w2[c.entity].notes = c.line[1].lw.notes
          /\ w2[c.entity].parent = c.line[1].parent
    /\ c.kind = "MoveLineAsChild" => w2[c.entity].parent = c.prev_parent

Kinds == {"CreateLine", "RemoveLine", "MoveLineAsChild"}

\* C1 (as claimed): on a chart that starts empty, after any number of do()
\* followed only by undo(), the undos run to the end, and once every command is
\* undone no entity is left: the chart is the empty chart again.
C1_FullUndoRestoresEmptyChart ==
    run = "undos" =>
        /\ ~panicked
        /\ done = <<>> => \A e \in Ids(world) : ~Alive(world, e)

\* The step condition of C2, stated in full below.
C2_Step ==
    /\ \A k \in Kinds : DidDo(k) =>
          /\ Len(done') = Len(done) + 1
          /\ Pop(done') = done
          /\ Applied(lastOp'.cmd, Top(done'), world, world')
          /\ redo' = <<>>
    /\ \A k \in Kinds : DidUndo(k) =>
          /\ done # <<>>
          /\ done' = Pop(done)
          /\ redo' = <<Top(done)>> \o redo
          /\ Inverted(Top(done), world, world')
    /\ \A k \in Kinds : DidRedo(k) =>
          /\ redo # <<>>
          /\ Pop(done') = done
          /\ redo' = Tail(redo)
          /\ Applied(Head(redo), Top(done'), world, world')
    /\ (lastOp'.op = "undo" /\ done = <<>>) => UNCHANGED <<world, done, redo>>
    /\ (lastOp'.op = "redo" /\ redo = <<>>) => UNCHANGED <<world, done, redo>>
    /\ (lastOp.op = "do" /\ lastOp'.op = "redo") => UNCHANGED <<world, done, redo>>

\* C2: a do() that completes applies the command, puts it on top of done and
\* empties redo; an undo() that completes moves the top of done to the front of
\* redo after inverting it; a redo() that completes applies the first of redo
\* and moves it to the top of done; undo() on an empty done, redo() on an empty
\* redo and a redo() right after a do() change neither the world nor the stacks.
C2_StackMoves == [][C2_Step]_vars

\* C2 witness: a command was undone and redone and one more is left to redo.
C2_Witness ==
    /\ lastOp.op = "redo" /\ lastOp.cmd.kind = "RemoveLine" /\ ~panicked
    /\ done # <<>> /\ redo # <<>>

\* C3: after do(C) the history is dirty, after a mark_saved() that follows it
\* is clean, after an undo() that follows it is dirty, after a redo() that
\* follows it is clean again; and the status bar shows "*" exactly when the
\* history is dirty.
C3_SaveMarkerSequence ==
    /\ phase \in {1, 3} => IsDirty
    /\ phase \in {2, 4} => ~IsDirty
    /\ StatusBarMarker <=> IsDirty

\* C3 witness: do; mark_saved; undo; redo has just been completed.
C3_Witness == phase = 4 /\ lastOp.op = "redo" /\ done # <<>>

\* The step condition of C4, stated in full below.
C4_Step ==
    DidDo("RemoveLine") =>
        LET id == lastOp'.cmd.entity
        IN /\ Len(world') = Len(world)
           /\ world'[id].status = "empty"
           /\ world'[id].notes = <<>> /\ world'[id].events = <<>>
           /\ world'[id].parent = None
           /\ Children(world', id) = {}
           /\ selectedLine' = selectedLine
           /\ \A e \in Ids(world) \ {id} :
                 /\ Alive(world', e) => world'[e] = world[e]
                 /\ e \notin Descendants(world, id) => world'[e] = world[e]

\* C4: after do(RemoveLine(id)) the entity id is alive and empty (no line, no
\* notes, no events, no parent, nothing below it), SelectedLine is what it was,
\* no entity was allocated, and every other entity that is still alive is
\* exactly as before; the entities outside id's subtree are all as before.
C4_RemoveLineLeavesEmptyShell == [][C4_Step]_vars

\* C4 witness: the selected line, which had notes and events, was removed.
C4_Witness ==
    /\ lastOp.op = "do" /\ lastOp.cmd.kind = "RemoveLine" /\ ~panicked
    /\ selectedLine = lastOp.cmd.entity
    /\ lastOp.before[selectedLine].notes # <<>>
    /\ lastOp.before[selectedLine].events # <<>>
    /\ world[selectedLine].status = "empty"

\* The step condition of C5, stated in full below.
C5_Step ==
    (lastOp.op = "do" /\ lastOp.cmd.kind = "RemoveLine" /\ ~panicked
        /\ lastOp'.op = "undo")
    => (~panicked' /\ world' = lastOp.before)

\* C5 (as claimed): do(RemoveLine(id)) followed by undo() gives back the world
\* before the do: the line with its notes, events and parent under the same
\* id, and its child lines.
C5_RemoveLineUndoRestoresSubtree == [][C5_Step]_vars

\* The step condition of C6, stated in full below.
C6_Step ==
    /\ DidDo("CreateLine") =>
          /\ Len(world') = Len(world) + 1
          /\ \A e \in Ids(world) : world'[e] = world[e]
          /\ world'[Len(world')] =
                [status |-> "line", line |-> 0, parent |-> None,
                 notes |-> <<>>, events |-> <<>>]
    /\ (lastOp.op = "do" /\ lastOp.cmd.kind = "CreateLine" /\ ~panicked
          /\ lastOp'.op = "undo") =>
          /\ ~panicked'
          /\ Len(world') = Len(lastOp.before) + 1
          /\ \A e \in Ids(lastOp.before) : world'[e] = lastOp.before[e]
          /\ ~Alive(world', Len(world'))
          /\ Lines(world') = Lines(lastOp.before)

\* C6: do(CreateLine) allocates exactly one entity, a root line with the
\* default line data and no notes or events, and leaves every other entity as
\* it was; an undo() that follows despawns that entity and nothing else, so
\* the world is the one before the do but for the despawned id.
C6_CreateLineAddsOneRootLine == [][C6_Step]_vars

\* C6 witness: a CreateLine submitted to a chart that has lines was undone.
C6_Witness ==
    /\ lastOp.op = "undo" /\ lastOp.cmd.kind = "CreateLine" /\ ~panicked
    /\ Lines(world) # {}
    /\ ~Alive(world, Len(world))

\* The step condition of C7, stated in full below.
C7_Step ==
    DidRedo("CreateLine") =>
        /\ Top(done').created = lastOp'.cmd.created
        /\ IsLine(world', lastOp'.cmd.created)

\* C7 (as claimed): the line a redo() of CreateLine creates has the entity id
\* of the line the first apply created.
C7_CreateLineRedoKeepsEntityId == [][C7_Step]_vars

\* The step condition of C8, stated in full below.
C8_Step ==
    /\ (DidDo("MoveLineAsChild") \/ DidRedo("MoveLineAsChild")) =>
          world'[lastOp'.cmd.entity].parent = lastOp'.cmd.target
    /\ (lastOp.op \in {"do", "redo"} /\ lastOp.cmd.kind = "MoveLineAsChild"
          /\ ~panicked /\ lastOp'.op = "undo") =>
          /\ ~panicked'
          /\ world'[lastOp.cmd.entity].parent =
                lastOp.before[lastOp.cmd.entity].parent
          /\ \A e \in Ids(world) \ {lastOp.cmd.entity} : world'[e] = world[e]

\* C8: a do() or redo() of MoveLineAsChild(id, target) that completes leaves id
\* with parent target (a root when target is None); an undo() that follows
\* completes and leaves id with the parent it had right before that do or redo.
C8_MoveLineAsChildSetsAndRestoresParent == [][C8_Step]_vars

\* C8 witness: the undo of a move gave the line back a parent it had, and the
\* move can be redone.
C8_Witness ==
    /\ lastOp.op = "undo" /\ lastOp.cmd.kind = "MoveLineAsChild" /\ ~panicked
    /\ lastOp.cmd.prev_parent # None
    /\ world[lastOp.cmd.entity].parent = lastOp.cmd.prev_parent
    /\ lastOp.cmd.target # lastOp.cmd.prev_parent

\* The step condition of C9, stated in full below.
C9_Step ==
    (lastOp'.op = "do" /\ lastOp'.cmd.kind = "MoveLineAsChild"
        /\ lastOp'.cmd.target \in
              {lastOp'.cmd.entity} \cup Descendants(world, lastOp'.cmd.entity))
    => UNCHANGED <<world, done, redo>>

\* C9 (as claimed): a do(MoveLineAsChild(x, y)) with y = x or y below x leaves
\* the world and both stacks as they were.
C9_MoveIntoOwnSubtreeRejected == [][C9_Step]_vars

\* C10 (as claimed): in every reachable state the parent relation of the
\* entities has no cycle.
C10_ParentRelationAcyclic == ~HasCycle(world)

\* The step condition of C11, stated in full below.
C11_Step ==
    (/\ lastOp'.op \in {"undo", "redo"}
     /\ lastOp'.cmd.kind \in {"RemoveLine", "MoveLineAsChild"}
     /\ ~Alive(world, lastOp'.cmd.entity))
    => /\ ~panicked'
       /\ world' = world
       /\ Len(done') + Len(redo') = Len(done) + Len(redo)

\* C11 (as claimed): an undo() or redo() that reaches a RemoveLine or a
\* MoveLineAsChild whose entity no longer exists does not crash, leaves the
\* world as it was and loses no command of the two stacks.
C11_StaleEntityAbortsWithNotFound == [][C11_Step]_vars

\* The indices 1..n in index order and in reverse index order.
InOrder(n) == [i \in 1..n |-> i]
Reversed(n) == [i \in 1..n |-> n + 1 - i]

\* The last step submitted, undid or redid a CommandSequence.
DidSequence(op) ==
    lastOp'.op = op /\ lastOp'.cmd.kind = "CommandSequence" /\ ~panicked'

\* The effect of a child of a sequence, once applied (c as kept on the stack),
\* on the world w2.
ChildApplied(c, w2) ==
    /\ c.kind = "CreateNote" =>
          /\ IsNote(w2, c.created)
          /\ w2[c.created].note = c.value
          /\ w2[c.created].parent = c.line_entity
    /\ c.kind = "CreateEvent" =>
          /\ IsEvent(w2, c.created)
          /\ w2[c.created].event = c.value
          /\ w2[c.created].parent = c.line_entity
    /\ c.kind \in {"RemoveNote", "RemoveEvent"} =>
          /\ ~Alive(w2, c.entity)
          /\ c.kept # <<>>

\* The effect of a child of a sequence, once undone, on the world w2.
ChildInverted(c, w2) ==
    /\ c.kind \in {"CreateNote", "CreateEvent"} => ~Alive(w2, c.created)
    /\ c.kind = "RemoveNote" =>
          /\ IsNote(w2, c.entity)
          /\ w2[c.entity].note = c.kept[1].value
          /\ w2[c.entity].parent = c.kept[1].parent
    /\ c.kind = "RemoveEvent" =>
          /\ IsEvent(w2, c.entity)
          /\ w2[c.entity].event = c.kept[1].value
          /\ w2[c.entity].parent = c.kept[1].parent

\* The step condition of C12, stated in full below.
C12_Step ==
    /\ (DidSequence("do") \/ DidSequence("redo")) =>
          LET n == Len(lastOp'.cmd.commands)
              kept == Top(done')
          IN /\ Len(done') = Len(done) + 1
             /\ Pop(done') = done
             /\ kept.kind = "CommandSequence"
             /\ Len(kept.commands) = n
             /\ ran' = InOrder(n)
             /\ \A i \in 1..n : ChildApplied(kept.commands[i], world')
             /\ Len(world') = Len(world) + n =>
                   \A i \in 1..n : kept.commands[i].created = Len(world) + i
    /\ DidSequence("undo") =>
          LET n == Len(Top(done).commands)
          IN /\ done' = Pop(done)
             /\ Len(redo') = Len(redo) + 1
             /\ ran' = Reversed(n)
             /\ \A i \in 1..n : ChildInverted(Top(done).commands[i], world')

\* C12: a do() or a redo() of a CommandSequence of n children runs the
\* children 1..n in index order (children that spawn get their entity ids in
\* that order), leaves every child applied and adds one entry to done; an
\* undo() runs the children n..1 in reverse index order, leaves every child
\* undone and takes that one entry off done.
C12_CommandSequenceOrder == [][C12_Step]_vars

\* C12 witness: a sequence of three children was undone and redone.
C12_Witness ==
    /\ lastOp.op = "redo" /\ lastOp.cmd.kind = "CommandSequence" /\ ~panicked
    /\ ran = <<1, 2, 3>>
    /\ Len(done) = 1

\* The step condition of C13, stated in full below.
C13_Step ==
    lastOp'.op = "save" =>
        IF lastOp'.exported /\ lastOp'.written
        THEN saved' = Len(done') /\ ~IsDirty'
        ELSE saved' = saved /\ IsDirty' = IsDirty

\* C13 (as claimed): a save that wrote chart.json and meta.json puts the save
\* marker at the top of done, so the history is not dirty after it; a save
\* that failed leaves the marker and is_dirty() as they were.
C13_SaveMarkerIffSaveSucceeded == [][C13_Step]_vars

\* The notes and the events among the selected entities of the world w.
SelectedNotes(w, sel) == {e \in SelectedQuery(w, sel) : IsNote(w, e)}
SelectedEvents(w, sel) == {e \in SelectedQuery(w, sel) : IsEvent(w, e)}

\* The clipboard cb holds the values of exactly the notes ns and the events es
\* of the world w, each once, in some order.
HoldsExactly(cb, w, ns, es) ==
    /\ \E o \in Orders(ns) :
          cb.notes = [i \in 1..Cardinality(ns) |-> w[o[i]].note]
    /\ \E o \in Orders(es) :
          cb.events = [i \in 1..Cardinality(es) |-> w[o[i]].event]

\* The step condition of C14, stated in full below.
C14_Step ==
    /\ lastOp'.op = "copy" =>
          /\ HoldsExactly(clipboard', world, SelectedNotes(world, selected),
                          SelectedEvents(world, selected))
          /\ UNCHANGED <<world, done, redo, saved, selected>>
    /\ lastOp'.op \in {"undo", "redo"} => clipboard' = clipboard

\* C14: after a Copy the clipboard holds the values of exactly the selected
\* notes and the selected events, each once, and nothing of what it held
\* before; selected entities of another kind add nothing; the world, the
\* stacks and the save marker are as they were; an undo() or redo() that
\* despawns or brings back the copied entities later leaves the clipboard as
\* it is.
C14_CopySnapshotsSelection == [][C14_Step]_vars

\* C14 witness: a copy of a note and an event, with a line selected too, over
\* a clipboard that held two notes and an event.
C14_Witness ==
    /\ lastOp.op = "copy"
    /\ \E l \in selected : IsLine(world, l)
    /\ Len(clipboard.notes) = 1 /\ Len(clipboard.events) = 1
    /\ Len(lastClip.before.notes) = 2 /\ Len(lastClip.before.events) = 1

\* The step condition of C15, stated in full below.
C15_Step ==
    /\ (lastOp'.op = "do" /\ lastClip'.op = "cut") =>
          LET ns == SelectedNotes(world, selected)
              es == SelectedEvents(world, selected)
              kept == Top(done')
          IN /\ ~panicked'
             /\ HoldsExactly(clipboard', world, ns, es)
             /\ Len(done') = Len(done) + 1
             /\ kept.kind = "CommandSequence"
             /\ Len(kept.commands) = Cardinality(ns) + Cardinality(es)
             /\ \A e \in ns :
                   \E i \in DOMAIN kept.commands :
                      /\ kept.commands[i].kind = "RemoveNote"
                      /\ kept.commands[i].entity = e
             /\ \A e \in es :
                   \E i \in DOMAIN kept.commands :
                      /\ kept.commands[i].kind = "RemoveEvent"
                      /\ kept.commands[i].entity = e
             /\ \A e \in ns \cup es : ~Alive(world', e)
             /\ \A e \in Ids(world) \ (ns \cup es) : world'[e] = world[e]
    /\ (lastOp.op = "do" /\ lastClip.op = "cut" /\ ~panicked
          /\ lastOp'.op = "undo") =>
          /\ ~panicked'
          /\ world' = lastOp.before

\* C15: a Cut leaves the clipboard as a Copy of the same selection does and
\* puts one CommandSequence on done with exactly one RemoveNote for each
\* selected note and one RemoveEvent for each selected event and no other
\* child; after it none of them is alive and every other entity is as it was;
\* one undo() that follows brings all of them back: the world is the world
\* before the Cut.
C15_CutRemovesSelection == [][C15_Step]_vars

\* C15 witness: two notes and an event were cut and brought back by one undo.
C15_Witness ==
    /\ lastOp.op = "undo" /\ lastOp.cmd.kind = "CommandSequence" /\ ~panicked
    /\ lastClip.op = "cut"
    /\ Len(lastOp.cmd.commands) = 3
    /\ Len(clipboard.notes) = 2 /\ Len(clipboard.events) = 1
    /\ Cardinality({e \in Ids(world) : IsNote(world, e)}) = 2

\* The beats the clipboard cb is measured from: note beats, event start beats.
ClipboardBeats(cb) ==
    {cb.notes[i].beat : i \in DOMAIN cb.notes}
    \cup {cb.events[i].start_beat : i \in DOMAIN cb.events}

\* The last step was a paste that sent a command.
DidPaste == lastOp'.op = "do" /\ lastClip'.op = "paste"

\* The step condition of C16, stated in full below.
C16_Step ==
    DidPaste =>
        LET p == lastClip'.beat
            min_beat == MinBeat(ClipboardBeats(clipboard))
            n == Len(clipboard.notes)
            m == Len(clipboard.events)
            kept == Top(done').commands
            pasted == {world'[kept[i].created].note.beat : i \in 1..n}
                      \cup {world'[kept[n + j].created].event.start_beat :
                               j \in 1..m}
        IN /\ ~panicked'
           /\ Len(kept) = n + m
           /\ \A i \in 1..n :
                 world'[kept[i].created].note.beat =
                    clipboard.notes[i].beat + (p - min_beat)
           /\ \A j \in 1..m :
                 LET new == world'[kept[n + j].created].event
                     old == clipboard.events[j]
                 IN /\ new.start_beat = old.start_beat + (p - min_beat)
                    /\ new.end_beat = old.end_beat + (p - min_beat)
                    /\ new.end_beat - new.start_beat
                          = old.end_beat - old.start_beat
           /\ MinBeat(pasted) = p

\* C16: in a paste at the quantized beat p, every pasted note has the beat of
\* its buffered note plus p - min_beat and every pasted event has start and
\* end of its buffered event plus p - min_beat, min_beat being the least of the
\* buffered note beats and event start beats; the least beat pasted is p and
\* every event keeps its duration.
C16_PasteShift == [][C16_Step]_vars

\* C16 witness: two notes and an event were pasted, measured from the event,
\* to a later beat.
C16_Witness ==
    /\ lastOp.op = "do" /\ lastClip.op = "paste" /\ ~panicked
    /\ Len(clipboard.notes) = 2 /\ Len(clipboard.events) = 1
    /\ lastClip.beat > MinBeat(ClipboardBeats(clipboard))

\* The step condition of C17, stated in full below.
C17_Step ==
    DidPaste =>
        LET timeline == lastClip'.timeline[1]
            target == IF timeline.line # None THEN timeline.line
                      ELSE selectedLine
            kept == Top(done').commands
        IN /\ ~panicked'
           /\ \A i \in DOMAIN kept :
                 /\ kept[i].line_entity = target
                 /\ world'[kept[i].created].parent = target

\* C17: every item of a paste is created on one line: the line the timeline
\* column under the cursor is bound to, or, when that column is bound to no
\* line, the SelectedLine.
C17_PasteTargetLine == [][C17_Step]_vars

\* C17 witness: a paste of several items into a column bound to a line that is
\* not the selected line.
C17_Witness ==
    /\ lastOp.op = "do" /\ lastClip.op = "paste" /\ ~panicked
    /\ lastClip.timeline[1].line \notin {None, selectedLine}
    /\ Len(Top(done).commands) > 1
    /\ \A i \in DOMAIN Top(done).commands :
          world[Top(done).commands[i].created].parent
             = lastClip.timeline[1].line

\* The step condition of C18, stated in full below.
C18_Step ==
    (/\ lastOp'.op \in {"paste", "do"}
     /\ lastClip'.op = "paste"
     /\ \/ lastClip'.cursor_position = <<>>
        \/ ~Contains(TimelineViewport, lastClip'.cursor_position[1]))
    => /\ lastClip'.sent = <<>>
       /\ UNCHANGED <<world, clipboard, done, redo, saved, selected>>

\* C18: a paste with no cursor position, or with the cursor outside the
\* timeline viewport, sends no command and leaves the world, the clipboard,
\* the stacks and the save marker as they were.
C18_PasteOutsideViewportIsNoop == [][C18_Step]_vars

\* C18 witness: a paste with a filled clipboard and the cursor left of, or
\* above, the viewport did nothing.
C18_Witness ==
    /\ lastOp.op = "paste" /\ lastClip.op = "paste"
    /\ lastClip.cursor_position = <<[x |-> 1, y |-> 0]>>
    /\ clipboard.notes # <<>>
    /\ done = <<>>

\* The step condition of C19, stated in full below.
C19_Step ==
    /\ (/\ lastOp'.op \in {"paste", "do"}
        /\ lastClip'.op = "paste"
        /\ lastClip'.timeline # <<>>
        /\ ~ClipboardEmpty(clipboard)) =>
          LET n == Len(clipboard.notes)
              m == Len(clipboard.events)
              kept == Top(done')
          IN /\ ~panicked'
             /\ Len(lastClip'.sent) = 1
             /\ Len(done') = Len(done) + 1
             /\ kept.kind = "CommandSequence"
             /\ Len(kept.commands) = n + m
             /\ \A i \in 1..n : kept.commands[i].kind = "CreateNote"
             /\ \A j \in 1..m : kept.commands[n + j].kind = "CreateEvent"
             /\ Len(world') = Len(world) + n + m
             /\ \A e \in Ids(world) : world'[e] = world[e]
    /\ (/\ lastOp'.op \in {"paste", "do"}
        /\ lastClip'.op = "paste"
        /\ ClipboardEmpty(clipboard)) =>
          /\ lastClip'.sent = <<>>
          /\ UNCHANGED <<world, done, redo>>
    /\ (lastOp.op = "do" /\ lastClip.op = "paste" /\ ~panicked
          /\ lastOp'.op = "undo") =>
          /\ ~panicked'
          /\ done' = Pop(done)
          /\ \A e \in Ids(lastOp.before) : world'[e] = lastOp.before[e]
          /\ \A e \in Ids(world') \ Ids(lastOp.before) : ~Alive(world', e)

\* C19: a paste with a filled clipboard and the cursor in a timeline column
\* sends one CommandSequence with one CreateNote for each buffered note and one
\* CreateEvent for each buffered event and nothing else; it adds one entry to
\* done and one entity for each item; one undo() that follows despawns all of
\* them and leaves the rest of the world as before the paste; a paste with an
\* empty clipboard sends nothing.
C19_PasteIsOneCommandSequence == [][C19_Step]_vars

\* C19 witness: a paste of two notes and an event was undone in one step.
C19_Witness ==
    /\ lastOp.op = "undo" /\ lastOp.cmd.kind = "CommandSequence" /\ ~panicked
    /\ lastClip.op = "paste"
    /\ Len(lastOp.cmd.commands) = 3
    /\ done = <<>>
    /\ Len(world) = 8
    /\ \A e \in 6..8 : ~Alive(world, e)

\* How often the id is in the sequence of ids.
Count(ids, id) == Cardinality({i \in DOMAIN ids : ids[i] = id})

\* The step condition of C20, stated in full below.
C20_Step ==
    running =>
        \A id \in ActionIds :
           LET driven == id \in DOMAIN registry /\ registry[id].enable_hotkey
               matched == /\ id \in DOMAIN hotkeys
                          /\ hotkeys[id].key \in keyboard'
                          /\ hotkeys[id].key \notin keyboard
                          /\ keyboard' \cap Modifiers = hotkeys[id].modifiers
           IN /\ (driven /\ matched) => Count(dispatched', id) = 1
              /\ ~(driven /\ matched) => Count(dispatched', id) = 0

\* C20: in every tick, an action that is registered with a hotkey and whose
\* chord just matched (its key went down in this tick, the modifiers down are
\* exactly its modifiers) is run exactly once; an action registered without a
\* hotkey is not run; an action whose key was already down before the tick is
\* not run.
C20_HotkeyDispatchExactlyOnce == [][C20_Step]_vars

\* C20 witness: two actions bound to the same chord were both run in a tick.
C20_Witness ==
    /\ running
    /\ Len(dispatched) = 2
    /\ dispatched[1] # dispatched[2]

\* The actions that are hotkey-driven and whose chord just matched in the
\* tick that is being taken.
JustMatched ==
    {id \in DOMAIN registry :
        /\ registry[id].enable_hotkey
        /\ id \in DOMAIN hotkeys
        /\ hotkeys[id].key \in keyboard' \ keyboard
        /\ keyboard' \cap Modifiers = hotkeys[id].modifiers}

\* The places of the calls of register_action that registered id.
RegisteredAt(id) == {i \in DOMAIN registered : registered[i].id = id}

\* Every registration of the action a was made before every one of b.
RegisteredBefore(a, b) ==
    \A i \in RegisteredAt(a) : \A j \in RegisteredAt(b) : i < j

\* The step condition of C21, stated in full below.
C21_Step ==
    running =>
        /\ Len(dispatched') <= 1
        /\ JustMatched # {} =>
              /\ Len(dispatched') = 1
              /\ dispatched'[1] \in JustMatched
              /\ \A id \in JustMatched :
                    /\ Cardinality(hotkeys[id].modifiers)
                          <= Cardinality(hotkeys[dispatched'[1]].modifiers)
                    /\ ~(/\ id # dispatched'[1]
                         /\ hotkeys[id].modifiers
                               = hotkeys[dispatched'[1]].modifiers
                         /\ RegisteredBefore(id, dispatched'[1]))

\* C21 (as claimed): when several chords just matched in a tick, one action
\* is dispatched: the one whose chord has the largest modifier set, the one
\* registered first among equals; no other matching action runs in the tick.
C21_OneActionPerTick == [][C21_Step]_vars

\* The step condition of C22, stated in full below.
C22_Step ==
    running =>
        /\ registry' = registry
        /\ \A i, j \in DOMAIN dispatched' :
              i < j => ~RegisteredBefore(dispatched'[j], dispatched'[i])

\* C22 (as claimed): a tick leaves the registry as it read it and runs the
\* collected actions one after another in the order of their registration:
\* no action runs before one that was registered, every time, before it.
C22_DispatchInRegistrationOrder == [][C22_Step]_vars

\* The step condition of C23, stated in full below.
C23_Step ==
    registered' # registered =>
        LET last == registered'[Len(registered')]
        IN /\ DOMAIN registry' = DOMAIN registry \cup {last.id}
           /\ run_action(registry', last.id) = <<last.system>>
           /\ registry'[last.id].enable_hotkey = (last.hotkey # <<>>)
           /\ \A id \in DOMAIN registry \ {last.id} :
                 registry'[id] = registry[id]

\* C23: after register_action(id, system, hotkey) the registry has one entry
\* for id, run_action(id) runs the system registered by this call and the
\* entry is hotkey-driven exactly if this call gave a hotkey, whatever was
\* registered under id before; the entries of other ids stay.
C23_RegistrationLastWriteWins == [][C23_Step]_vars

\* C23 witness: an id was registered twice, with another system and another
\* hotkey flag the second time, and the registry holds the second.
C23_Witness ==
    \E i, j \in DOMAIN registered :
       /\ i < j /\ j = Len(registered)
       /\ registered[i].id = registered[j].id
       /\ registered[i].system # registered[j].system
       /\ (registered[i].hotkey = <<>>) # (registered[j].hotkey = <<>>)
       /\ run_action(registry, registered[j].id) = <<registered[j].system>>

\* The step is the frame in which a hold-resize drag stops.
DragStops == dragging # <<>> /\ dragging' = <<>>

\* The step is a drag stop that sent its EditNote.
DragStopSent ==
    DragStops /\ lastOp'.op = "do" /\ lastOp'.cmd.kind = "EditNote"

\* The step condition of C24, stated in full below.
C24_Step ==
    /\ lastOp'.op \in {"drag_started", "dragged"} => UNCHANGED <<done, redo>>
    /\ DragStops =>
          LET e == dragging[1].entity
              from == holdDrag[1]
              to == world'[e].note
          IN /\ IF dragging[1].start THEN to.beat = attach(to.beat)
                ELSE end_beat(to) = attach(end_beat(to))
             /\ IF from # to
                THEN /\ ~panicked'
                     /\ done' = Append(done, EditNoteNew(e, from, to))
                ELSE UNCHANGED <<done, redo>>

\* C24: the frames in which a hold-resize drag starts or goes on send no
\* command; the frame in which it stops leaves the dragged end on the grid
\* and, with `from` the note kept when the drag started and `to` the note as
\* it is then, puts the one command EditNote(entity, from, to) on done if
\* from # to and nothing if from = to.
C24_HoldResizeSendsOneEditNote == [][C24_Step]_vars

\* C24 witness: a drag of the end zone over several frames has stopped one
\* grid step higher and its EditNote is the one entry of done.
C24_Witness ==
    /\ lastOp.op = "do" /\ lastOp.cmd.kind = "EditNote" /\ ~panicked
    /\ dragging = <<>>
    /\ done = <<lastOp.cmd>>
    /\ lastOp.cmd.from = HoldNote(Grid, Grid)
    /\ lastOp.cmd.to = HoldNote(Grid, 2 * Grid)

\* The step condition of C25, stated in full below.
C25_Step ==
    DragStopSent =>
        LET from == lastOp'.cmd.from
            to == lastOp'.cmd.to
        IN IF dragging[1].start
           THEN to.beat + to.hold_beat = from.beat + from.hold_beat
           ELSE to.beat = from.beat

\* C25 (as claimed): the EditNote of a resize from the start zone has
\* to.beat + to.hold_beat = from.beat + from.hold_beat; the EditNote of a
\* resize from the end zone has to.beat = from.beat.
C25_StartResizeKeepsEndBeat == [][C25_Step]_vars

\* The step condition of C26, stated in full below.
C26_Step == DragStopSent => lastOp'.cmd.to.hold_beat > 0

\* C26 (as claimed): the `to` of the EditNote of every hold-resize gesture
\* has hold_beat > 0.
C26_HoldBeatStaysPositive == [][C26_Step]_vars

\* The step handled a LoadProjectEvent.
DidLoad == lastOp'.op = "load"

\* The directory has chart.json, meta.json, a music file and an illustration
\* file with an extension of the lists.
AllPresent(dir) ==
    /\ dir.chart # <<>>
    /\ dir.meta # <<>>
    /\ dir.music \cap {"wav", "mp3", "ogg", "flac"} # {}
    /\ dir.illustration \cap {"png", "jpg", "jpeg"} # {}

\* meta.json parses, and chart.json is JSON in the layout of some format.
BothParse(dir) ==
    /\ dir.meta[1].valid
    /\ dir.chart[1].json
    /\ dir.chart[1].layout # "invalid"

\* The step condition of C27, stated in full below.
C27_Step ==
    DidLoad =>
        LET dir == lastOp'.dir
        IN /\ project' # <<>> => AllPresent(dir) /\ BothParse(dir)
           /\ ~(AllPresent(dir) /\ BothParse(dir)) =>
                 /\ project' = <<>>
                 /\ toast' = "Failed to open project"
                 /\ UNCHANGED <<world, resources>>

\* C27: a load inserts the Project resource only if chart.json, meta.json, a
\* music file (wav, mp3, ogg, flac) and an illustration file (png, jpg, jpeg)
\* are present and meta.json and chart.json parse; when one of them is missing
\* or does not parse, no Project is inserted, the error is toasted and
\* nothing is loaded.
C27_LoadValidatesProject == [][C27_Step]_vars

\* C27 witness: a directory that is complete but for its illustration, which
\* is a gif, was refused with a toast.
C27_Witness ==
    /\ lastOp.op = "load"
    /\ lastOp.dir.illustration = {"gif"}
    /\ lastOp.dir.music = {"wav"}
    /\ lastOp.dir.meta = <<MetaJson(TRUE)>>
    /\ lastOp.dir.chart # <<>>
    /\ FromReader(lastOp.dir.chart[1])
    /\ project = <<>>
    /\ toast = "Failed to open project"

\* The step condition of C28, stated in full below.
C28_Step ==
    (/\ DidLoad
     /\ AllPresent(lastOp'.dir)
     /\ lastOp'.dir.meta[1].valid
     /\ lastOp'.dir.chart[1].json
     /\ lastOp'.dir.chart[1].format < CurrentFormat
     /\ lastOp'.dir.chart[1].layout = "old")
    => /\ project' # <<>>
       /\ lastOp'.chart
       /\ world' = LoadEntities(from_value(lastOp'.dir.chart[1].lines), world)

\* C28 (as claimed): a project that is complete and whose chart.json has a
\* format below the current one, in the old layout, loads: the Project is
\* inserted and the chart is loaded as migrated.
C28_OldFormatProjectLoads == [][C28_Step]_vars

\* The step condition of C29, stated in full below.
C29_Step ==
    (DidLoad /\ ~lastOp'.chart) => UNCHANGED <<world, resources>>

\* C29: a load of the chart that fails (no JSON, a format above the current
\* one or another failure of the migration, a failed deserialization) has
\* inserted no offset and no tempo-map resource and has spawned no entity.
C29_FailedChartLoadChangesNothing == [][C29_Step]_vars

\* C29 witness: the chart of a project that passed validation has a format
\* above the current one: its load failed and left no resource and no entity.
C29_Witness ==
    /\ lastOp.op = "load"
    /\ lastOp.project /\ ~lastOp.chart
    /\ lastOp.dir.chart[1].format > CurrentFormat
    /\ lastOp.dir.chart[1].lines # <<>>
    /\ world = <<>>
    /\ resources = {}

\* The lines of a forest of LineTrees with the line each is nested in (None at
\* top level), and its notes and events with the line they are listed under.
RECURSIVE ForestLines(_, _)
ForestLines(trees, parent) ==
    IF trees = <<>> THEN {}
    ELSE {<<Head(trees).line, parent>>}
         \cup ForestLines(Head(trees).children, Head(trees).line)
         \cup ForestLines(Tail(trees), parent)

RECURSIVE ForestNotes(_)
ForestNotes(trees) ==
    IF trees = <<>> THEN {}
    ELSE {<<Head(trees).notes[i], Head(trees).line>> :
             i \in DOMAIN Head(trees).notes}
         \cup ForestNotes(Head(trees).children)
         \cup ForestNotes(Tail(trees))

RECURSIVE ForestEvents(_)
ForestEvents(trees) ==
    IF trees = <<>> THEN {}
    ELSE {<<Head(trees).events[i], Head(trees).line>> :
             i \in DOMAIN Head(trees).events}
         \cup ForestEvents(Head(trees).children)
         \cup ForestEvents(Tail(trees))

\* The same of a world: the line entities with the line of their parent, the
\* note and event entities with the line of theirs.
WorldLines(w) ==
    {<<w[e].line, IF w[e].parent = None THEN None ELSE w[w[e].parent].line>> :
        e \in Lines(w)}
WorldNotes(w) ==
    {<<w[e].note, w[w[e].parent].line>> : e \in {x \in Ids(w) : IsNote(w, x)}}
WorldEvents(w) ==
    {<<w[e].event, w[w[e].parent].line>> :
        e \in {x \in Ids(w) : IsEvent(w, x)}}

\* The step condition of C30, stated in full below.
C30_Step ==
    (DidLoad /\ lastOp'.chart) =>
        LET trees == lastOp'.dir.chart[1].lines
        IN /\ WorldLines(world') = ForestLines(trees, None)
           /\ WorldNotes(world') = ForestNotes(trees)
           /\ WorldEvents(world') = ForestEvents(trees)
           /\ \A e \in Ids(world') :
                 (IsNote(world', e) \/ IsEvent(world', e)) =>
                    IsLine(world', world'[e].parent)

\* C30 (as claimed): after a load of the chart that succeeded, the line
\* entities are the lines of the file's forest, nested ones included, each
\* child line with its enclosing line as parent, and every note and event is
\* a child of the line it is listed under.
C30_WorldMirrorsLineForest == [][C30_Step]_vars

(* ------------------------------- C31 ---------------------------------- *)

\* The step condition of C31, stated in full below.
C31_Step ==
    lastOp'.op = "save" =>
        /\ Len(lastOp'.toasts) = 1
        /\ lastOp'.toasts[1] = "project.save.succeed"
               <=> (lastOp'.exported /\ lastOp'.written)
        /\ lastOp'.toasts[1] \in {"project.save.succeed", "project.save.failed"}

\* C31 (as claimed): every run of the save action gives exactly one message
\* to the notification sink, the success message if and only if chart.json
\* and meta.json were both written and an error message otherwise, also when
\* the export of the chart fails before any file is written.
C31_SaveSurfacedExactlyOnce == [][C31_Step]_vars

(* ------------------------------- C32 ---------------------------------- *)

\* The step condition of C32, stated in full below.
C32_Step ==
    lastOp'.op = "save" =>
        /\ disk'.chart \in {disk.chart, File(export(world))}
        /\ disk'.meta \in {disk.meta, File(ProjectMeta)}

\* C32 (as claimed): a save is atomic per file: whatever write fails,
\* chart.json and meta.json each hold their complete previous content or
\* their complete new content after it, never a truncated or partial file.
C32_SaveAtomicPerFile == [][C32_Step]_vars

(* ------------------------------- C37 ---------------------------------- *)

\* The step condition of C37, stated in full below.
C37_Step ==
    /\ (phase = 3 /\ phase' = 5) => (Len(done') = saved /\ IsDirty')
    /\ (saved = NoMarker /\ lastOp'.op # "mark_saved") => IsDirty'

C36_Step ==
    /\ (/\ lastClip'.op = "cut" /\ lastOp'.op = "do"
        /\ SelectedNotes(world, selected) = {}
        /\ SelectedEvents(world, selected) = {}) =>
          /\ UNCHANGED <<done, redo>>
          /\ IsDirty' = IsDirty
    /\ (/\ lastClip'.op = "paste" /\ lastOp'.op \in {"paste", "do"}
        /\ ClipboardEmpty(clipboard)) =>
          /\ lastClip'.sent = <<>>
          /\ UNCHANGED <<done, redo>>
          /\ IsDirty' = IsDirty
    /\ (lastClip'.op \in {"cut", "paste"} /\ lastOp'.op = "do") =>
          Top(done').commands # <<>>

\* C36 (as claimed): a Cut with no note and no event selected, like a Paste
\* with an empty clipboard, sends no command: done and redo are as they were
\* and is_dirty() is as it was; no CommandSequence a Cut or a Paste puts on
\* done is empty.
C36_NoEmptyCommandSequence == [][C36_Step]_vars

(* ------------------------------- C38 ---------------------------------- *)

\* The step condition of C38, stated in full below.
C38_Step ==
    lastOp'.op = "load" =>
        LET last == loadEvents[Len(loadEvents)]
            r == into_project(last)
        IN /\ lastOp'.dir = last
           /\ loadEvents' = <<>>
           /\ IF r.ok
              THEN /\ project' = r.value
                   /\ world' = load(last.chart[1], world, resources).w
              ELSE /\ project' = <<>>
                   /\ world' = world

\* C38: a tick of load_project_system with several LoadProjectEvents pending
\* loads the last of them alone, the world and the Project are those of that
\* one load, and no event is pending after it, so that none is handled twice
\* or in a later tick.
C38_LoadRequestsConsumedOnce == [][C38_Step]_vars

\* C38 witness: two different projects were requested in one tick, the
\* second one was loaded and nothing is pending.
C38_Witness ==
    /\ lastOp.op = "load"
    /\ Len(lastOp.pending) = 2
    /\ lastOp.pending[1] # lastOp.pending[2]
    /\ lastOp.dir = lastOp.pending[2]
    /\ project = <<Project(lastOp.pending[2])>>
    /\ loadEvents = <<>>

(* ------------------------------- C33 ---------------------------------- *)

\* The step condition of C33, stated in full below.
C33_Step ==
    (lastOp'.op = "create" /\ lastOp'.result.ok) =>
        LET dir == lastOp'.dir
            loaded == into_project(dir)
        IN /\ set_extension(lastOp'.music_path) \in dir.music
           /\ set_extension(lastOp'.illustration_path) \in dir.illustration
           /\ dir.meta = <<to_string_pretty(lastOp'.project_meta)>>
           /\ dir.chart = <<PhiChainChartDefault>>
           /\ loaded.ok
           /\ loaded.value[1].meta = lastOp'.project_meta

\* C33 (as claimed): whenever create_project is Ok the directory holds the
\* music and the illustration under the names music and illustration with
\* the extensions of their sources, a meta.json that is the meta given and a
\* chart.json that is the default empty chart, and Project::load of the
\* directory is Ok and returns that meta.
C33_CreateThenLoad == [][C33_Step]_vars

(* ------------------------------- C34 ---------------------------------- *)

\* The step condition of C34, stated in full below.
C34_Step ==
    lastOp'.op = "run_action" =>
        LET id == lastOp'.id
        IN IF id \in DOMAIN registry
           THEN /\ lastOp'.ran = <<id>>
                /\ lastOp'.logged = <<>>
                /\ DOMAIN registry' = DOMAIN registry
                /\ registry[id].system = "save_project_system" =>
                      \E o \in SaveOutcomes(world, project, disk) :
                         /\ disk' = o.disk
                         /\ o.toasts # <<>> => toast' = o.toasts[1]
           ELSE /\ lastOp'.ran = <<>>
                /\ lastOp'.logged = <<id>>
                /\ UNCHANGED <<world, registry, done, redo, disk, toast>>

\* C34: run_action(id) with an id of the registry runs the system of that
\* action once (a save_project_system leaves what one save leaves) and the
\* ids of the registry are as before; with an unknown id nothing is run, the
\* id is logged as an error, and the chart, the registry and the command
\* stack are as before.
C34_RunActionById == [][C34_Step]_vars

\* C34 witness: after an edit, the menu has run the save action, which wrote
\* the project, and then an action that is not registered, which was logged.
C34_Witness ==
    /\ lastOp.op = "run_action"
    /\ lastOp.id = "phichain.project.unload"
    /\ lastOp.id \notin DOMAIN registry
    /\ lastOp.logged = <<"phichain.project.unload">>
    /\ toast = "project.save.succeed"
    /\ done # <<>>

(* ------------------------------- C35 ---------------------------------- *)

\* The step condition of C35, stated in full below.
C35_Step ==
    ~project_loaded =>
        /\ lastOp'.op = "tick" => dispatched' = <<>>
        /\ lastOp'.op \notin {"copy", "paste", "do"}

\* C35 (as claimed): while no project is loaded the hotkey dispatcher runs
\* no action (the save action in particular) and no copy, cut or paste is
\* handled.
C35_EditingGatedOnProject == [][C35_Step]_vars

====
